---- MODULE Spec2Model ----
(***************************************************************************)
(* Model of the two shear-band scripts isotropic.py and ti_model.py:       *)
(* command-line handling (model selector, parameter overrides), output     *)
(* directory set-up and file writes, scaling, solver set-up, the manual    *)
(* Picard iteration, and the synchronisation of a parallel run.            *)
(*                                                                         *)
(* Text is modelled by TLA+ strings, on which Len, SubSeq, Head, Tail and  *)
(* \o act as on sequences of characters.  Python values are records        *)
(*   [t, n, e, s] : t = "float" | "int" | "bool" | "str",                  *)
(* a number being n * 10^e (floats keep a decimal mantissa and exponent,   *)
(* trailing zeros stripped) and a text being s.                            *)
(***************************************************************************)
EXTENDS Integers, Sequences, FiniteSets, TLC

VARIABLES script, argv, pc, Model, ModNum, dp, md, argi,
          fs, written, wi, paramsCsv,
          velocityField, pressureField, prevVelocityField, prevPressureField,
          iter, count, solves, detrends, res1Vals, res2Vals, res3Vals,
          solverCsv,
          sf, ndp, stokes, solver,
          rpc, swarmFile, readParts, pfit, dydx, const, bcastBuf, swarmCustom,
          materialVariable, plasticStrain, strainRate_2ndInvariantFn,
          yieldingViscosityFn, viscosityFn, viscosity2Fn, secondViscosityFn,
          eII_sig, shearbandswarm, in2sigRest, out2sigRest,
          shearArea, backgroundArea

vars == <<script, argv, pc, Model, ModNum, dp, md, argi,
          fs, written, wi, paramsCsv,
          velocityField, pressureField, prevVelocityField, prevPressureField,
          iter, count, solves, detrends, res1Vals, res2Vals, res3Vals,
          solverCsv,
          sf, ndp, stokes, solver,
          rpc, swarmFile, readParts, pfit, dydx, const, bcastBuf, swarmCustom,
          materialVariable, plasticStrain, strainRate_2ndInvariantFn,
          yieldingViscosityFn, viscosityFn, viscosity2Fn, secondViscosityFn,
          eII_sig, shearbandswarm, in2sigRest, out2sigRest,
          shearArea, backgroundArea>>

cliVars == <<Model, ModNum, dp, md, argi>>
fsVars == <<fs, written, wi, paramsCsv>>
picardVars == <<velocityField, pressureField, prevVelocityField,
                prevPressureField, iter, count, solves, detrends,
                res1Vals, res2Vals, res3Vals, solverCsv>>
setupVars == <<sf, ndp, stokes, solver>>
fieldVars == <<materialVariable, plasticStrain, strainRate_2ndInvariantFn,
               yieldingViscosityFn, viscosityFn, viscosity2Fn,
               secondViscosityFn, eII_sig, shearbandswarm, in2sigRest,
               out2sigRest, shearArea, backgroundArea>>
mpiVars == <<rpc, swarmFile, readParts, pfit, dydx, const, bcastBuf,
             swarmCustom>>

Scripts == {"isotropic", "ti_model"}

(***************************************************************************)
(* Python text primitives                                                  *)
(***************************************************************************)
CharAt(s, i) == SubSeq(s, i, i)

\* sub in s
Contains(s, sub) ==
    \E i \in 1..(Len(s) - Len(sub) + 1) : SubSeq(s, i, i + Len(sub) - 1) = sub

\* s.startswith(p)
StartsWith(s, p) == Len(s) >= Len(p) /\ SubSeq(s, 1, Len(p)) = p

\* index of the first occurrence of sep in s, 0 when there is none
Find(s, sep) ==
    LET hits == {i \in 1..(Len(s) - Len(sep) + 1) :
                    SubSeq(s, i, i + Len(sep) - 1) = sep}
    IN IF hits = {} THEN 0
       ELSE CHOOSE i \in hits : \A j \in hits : i <= j

\* s.split(sep): the list of the pieces between occurrences of sep
RECURSIVE Split(_, _)
Split(s, sep) ==
    LET i == Find(s, sep)
    IN IF i = 0 THEN <<s>>
       ELSE <<SubSeq(s, 1, i - 1)>> \o Split(SubSeq(s, i + Len(sep), Len(s)), sep)

Digits == {"0", "1", "2", "3", "4", "5", "6", "7", "8", "9"}

DigitVal(c) ==
    CASE c = "0" -> 0 [] c = "1" -> 1 [] c = "2" -> 2 [] c = "3" -> 3
      [] c = "4" -> 4 [] c = "5" -> 5 [] c = "6" -> 6 [] c = "7" -> 7
      [] c = "8" -> 8 [] c = "9" -> 9

DigitChar(d) ==
    CASE d = 0 -> "0" [] d = 1 -> "1" [] d = 2 -> "2" [] d = 3 -> "3"
      [] d = 4 -> "4" [] d = 5 -> "5" [] d = 6 -> "6" [] d = 7 -> "7"
      [] d = 8 -> "8" [] d = 9 -> "9"

AllDigits(s) == \A i \in 1..Len(s) : CharAt(s, i) \in Digits

RECURSIVE DigitsToNat(_)
DigitsToNat(s) ==
    IF s = "" THEN 0
    ELSE DigitsToNat(SubSeq(s, 1, Len(s) - 1)) * 10 + DigitVal(CharAt(s, Len(s)))

RECURSIVE NatToStr(_)
NatToStr(n) ==
    IF n < 10 THEN DigitChar(n)
    ELSE NatToStr(n \div 10) \o DigitChar(n % 10)

\* str(n) of an int
IntToStr(n) == IF n < 0 THEN "-" \o NatToStr(0 - n) ELSE NatToStr(n)

HasSign(s) == Len(s) > 0 /\ Head(s) \in {"+", "-"}
Unsigned(s) == IF HasSign(s) THEN Tail(s) ELSE s
SignOf(s) == IF Len(s) > 0 /\ Head(s) = "-" THEN 0 - 1 ELSE 1

\* int(s) for the decimal texts [sign]digits; anything else is a ValueError
ParseInt(s) ==
    LET body == Unsigned(s)
    IN IF body # "" /\ AllDigits(body)
       THEN [ok |-> TRUE, n |-> SignOf(s) * DigitsToNat(body)]
       ELSE [ok |-> FALSE, n |-> 0]

(***************************************************************************)
(* Python values                                                           *)
(***************************************************************************)
RECURSIVE StripZeros(_, _)
StripZeros(n, e) ==
    IF n = 0 THEN <<0, 0>>
    ELSE IF n % 10 = 0 THEN StripZeros(n \div 10, e + 1)
    ELSE <<n, e>>

PyFloat(n, e) ==
    LET ne == StripZeros(n, e)
    IN [t |-> "float", n |-> ne[1], e |-> ne[2], s |-> ""]
PyInt(n) == [t |-> "int", n |-> n, e |-> 0, s |-> ""]
PyBool(b) == [t |-> "bool", n |-> IF b THEN 1 ELSE 0, e |-> 0, s |-> ""]
PyStr(s) == [t |-> "str", n |-> 0, e |-> 0, s |-> s]

IsNumber(v) == v.t \in {"float", "int", "bool"}

\* float(s) for the decimal texts [sign]digits[.digits] and [sign].digits;
\* anything else is a ValueError
ParseFloat(s) ==
    LET body == Unsigned(s)
        dot == Find(body, ".")
        whole == IF dot = 0 THEN body ELSE SubSeq(body, 1, dot - 1)
        frac == IF dot = 0 THEN "" ELSE SubSeq(body, dot + 1, Len(body))
    IN IF AllDigits(whole) /\ AllDigits(frac) /\ (whole \o frac) # ""
       THEN [ok |-> TRUE,
             v |-> PyFloat(SignOf(s) * DigitsToNat(whole \o frac), 0 - Len(frac))]
       ELSE [ok |-> FALSE, v |-> PyStr(s)]

RECURSIVE Repeat(_, _)
Repeat(s, k) == IF k <= 0 THEN "" ELSE s \o Repeat(s, k - 1)

\* a * b: the product, or a TypeError
PyMul(a, b) ==
    IF IsNumber(a) /\ IsNumber(b)
    THEN [exc |-> "none",
          v |-> IF a.t = "float" \/ b.t = "float"
                THEN PyFloat(a.n * b.n, a.e + b.e)
                ELSE PyInt(a.n * b.n)]
    ELSE IF a.t = "str" /\ b.t \in {"int", "bool"}
    THEN [exc |-> "none", v |-> PyStr(Repeat(a.s, b.n))]
    ELSE IF b.t = "str" /\ a.t \in {"int", "bool"}
    THEN [exc |-> "none", v |-> PyStr(Repeat(b.s, a.n))]
    ELSE [exc |-> "TypeError", v |-> a]

(***************************************************************************)
(* Parameter dictionaries (dp, md) as set up before the override loop.     *)
(* U0 is a quotient with no finite decimal expansion; it is carried to     *)
(* five significant digits.                                                *)
(***************************************************************************)
\* v/4. and v/16. of a float: exact in decimal
Quarter(v) == PyFloat(v.n * 25, v.e - 2)
Sixteenth(v) == PyFloat(v.n * 625, v.e - 4)

DefaultDp(sc) ==
    IF sc = "isotropic"
    THEN LET depth == PyFloat(30, 3)
         IN [depth |-> depth, asthenosphere |-> Quarter(depth),
             eta1 |-> PyFloat(1, 24), eta2 |-> PyFloat(1, 20),
             etaMin |-> PyFloat(1, 18), U0 |-> PyFloat(79274, 0 - 15),
             rho |-> PyFloat(27, 2), g |-> PyFloat(981, 0 - 2),
             cohesion |-> PyFloat(1, 8), fa |-> PyFloat(30, 0),
             a |-> PyFloat(1, 0), notchWidth |-> Sixteenth(depth),
             lam |-> PyFloat(1, 16)]
    ELSE LET LS == PyFloat(30, 3)
         IN [LS |-> LS, asthenosphere |-> Quarter(PyFloat(30, 3)),
             eta0 |-> PyFloat(1, 21), eta1 |-> PyFloat(1, 23),
             eta2 |-> PyFloat(1, 20), etaMin |-> PyFloat(1, 18),
             U0 |-> PyFloat(39637, 0 - 14), rho |-> PyFloat(27, 2),
             g |-> PyFloat(981, 0 - 2), cohesion |-> PyFloat(1, 8),
             fa |-> PyFloat(15, 0), a |-> PyFloat(1, 0),
             notchWidth |-> Sixteenth(LS)]

DefaultMd(sc) ==
    IF sc = "isotropic"
    THEN [refineMesh |-> PyBool(FALSE), stickyAir |-> PyBool(FALSE),
          aspectRatio |-> PyFloat(4, 0), res |-> PyInt(32), ppc |-> PyInt(25),
          tol |-> PyFloat(1, 0 - 10), pen |-> PyFloat(1, 7),
          comp |-> PyBool(FALSE), maxIts |-> PyInt(50), perturb |-> PyInt(1),
          pertSig |-> PyFloat(1, 0)]
    ELSE [refineMesh |-> PyBool(FALSE), stickyAir |-> PyBool(FALSE),
          aspectRatio |-> PyFloat(4, 0), res |-> PyInt(48), ppc |-> PyInt(35),
          tol |-> PyFloat(1, 0 - 7), maxIts |-> PyInt(50),
          directorPhi |-> PyFloat(45, 0), directorV |-> PyFloat(1, 0 - 5),
          directorSigma |-> PyFloat(1, 0 - 5)]

(***************************************************************************)
(* Model / ModNum selection                                                *)
(***************************************************************************)
\* variant of the loop body without the test for "="
SelectArgAny(farg, sel) ==
    IF ParseInt(farg).ok
    THEN [sel EXCEPT !.ModNum = ParseInt(farg).n]
    ELSE [sel EXCEPT !.Model = farg]

\* the body of "for farg in sys.argv[1:]" applied to one argument
SelectArg(farg, sel) ==
    IF ~Contains(farg, "=")
    THEN IF ParseInt(farg).ok
         THEN [sel EXCEPT !.ModNum = ParseInt(farg).n]
         ELSE [sel EXCEPT !.Model = farg]
    ELSE sel

RECURSIVE SelectArgs(_, _)
SelectArgs(args, sel) ==
    IF args = <<>> THEN sel
    ELSE SelectArgs(Tail(args), SelectArg(Head(args), sel))

\* Model and ModNum after the selection block; args is sys.argv[1:]
SelectModel(args) ==
    LET default == [Model |-> "T", ModNum |-> 0]
    IN IF Len(args) = 0 THEN default
       ELSE IF args[1] = "-f" THEN default
       ELSE SelectArgs(args, default)

(***************************************************************************)
(* Parameter overrides                                                     *)
(***************************************************************************)
\* variant of the conversion without the 'False' branch
ConvertValNoFalse(val) ==
    IF val = "True" THEN PyBool(TRUE)
    ELSE IF ParseFloat(val).ok THEN ParseFloat(val).v
    ELSE PyStr(val)

\* 'True' / 'False' / float(val) / the text itself
ConvertVal(val) ==
    IF val = "True" THEN PyBool(TRUE)
    ELSE IF val = "False" THEN PyBool(FALSE)
    ELSE IF ParseFloat(val).ok THEN ParseFloat(val).v
    ELSE PyStr(val)

\* variant of the update where a missing key is multiplied as if it were 1
DictUpdateDefault(d, arg, val, star) ==
    IF star /\ arg \in DOMAIN d
    THEN IF PyMul(d[arg], val).exc # "none"
         THEN [d |-> d, exc |-> PyMul(d[arg], val).exc]
         ELSE [d |-> (arg :> PyMul(d[arg], val).v) @@ d, exc |-> "none"]
    ELSE [d |-> (arg :> val) @@ d, exc |-> "none"]

\* d[arg] = d[arg]*val when star, d[arg] = val otherwise
DictUpdate(d, arg, val, star) ==
    IF star
    THEN IF arg \notin DOMAIN d THEN [d |-> d, exc |-> "KeyError"]
         ELSE IF PyMul(d[arg], val).exc # "none"
              THEN [d |-> d, exc |-> PyMul(d[arg], val).exc]
         ELSE [d |-> (arg :> PyMul(d[arg], val).v) @@ d, exc |-> "none"]
    ELSE [d |-> (arg :> val) @@ d, exc |-> "none"]

\* does the token address this dictionary
Addresses(farg, name) == StartsWith(farg, name)

\* the try-block of the override loop for one token: the dictionaries it
\* leaves and the exception it raised ("none" when it ran to its end)
OverrideToken(farg, d, m) ==
    LET fail(e) == [dp |-> d, md |-> m, exc |-> e]
        p1 == Split(farg, "=")
        p2 == Split(p1[1], ".")
        star == Contains(farg, "*=")
        p3 == Split(farg, "*=")
        p4 == Split(p3[1], ".")
        rawval == IF star THEN p3[2] ELSE p1[2]
        arg == IF star THEN p4[2] ELSE p2[2]
        val == ConvertVal(rawval)
        rd == IF Addresses(farg, "dp") THEN DictUpdate(d, arg, val, star)
              ELSE [d |-> d, exc |-> "none"]
        rm == IF Addresses(farg, "md") THEN DictUpdate(m, arg, val, star)
              ELSE [d |-> m, exc |-> "none"]
    IN IF Len(p1) # 2 THEN fail("ValueError")
       ELSE IF Len(p2) # 2 THEN fail("ValueError")
       ELSE IF star /\ Len(p3) # 2 THEN fail("ValueError")
       ELSE IF star /\ Len(p4) # 2 THEN fail("ValueError")
       ELSE IF rd.exc # "none" THEN [dp |-> rd.d, md |-> m, exc |-> rd.exc]
       ELSE [dp |-> rd.d, md |-> rm.d, exc |-> rm.exc]

\* the override loop over a whole argument list
RECURSIVE OverrideArgs(_, _, _)
OverrideArgs(args, d, m) ==
    IF args = <<>> THEN [dp |-> d, md |-> m]
    ELSE LET r == OverrideToken(Head(args), d, m)
         IN OverrideArgs(Tail(args), r.dp, r.md)

(***************************************************************************)
(* Scale factors and non-dimensional parameters.  A quotient, product,     *)
(* power or trigonometric value is kept as the term that was computed,     *)
(*   [op, l, r],                                                           *)
(* over the Python values it was computed from.                            *)
(***************************************************************************)
Quot(a, b) == [op |-> "/", l |-> a, r |-> b]
Prod(a, b) == [op |-> "*", l |-> a, r |-> b]
Pow(a, k) == [op |-> "**", l |-> a, r |-> PyInt(k)]
Fn(name, a) == [op |-> name, l |-> a, r |-> a]
\* degrees to radians: np.radians(x), (math.pi/180.)*x
Radians(a) == Fn("radians", a)

\* bool(v)
Truthy(v) == IF v.t = "str" THEN v.s # "" ELSE v.n # 0

\* the dp entries the scaling cells do arithmetic on, and those they divide by
ScaledKeys(sc) ==
    IF sc = "isotropic"
    THEN {"depth", "U0", "asthenosphere", "eta1", "eta2", "etaMin",
          "cohesion", "fa", "g", "rho", "notchWidth", "lam"}
    ELSE {"LS", "eta0", "U0", "asthenosphere", "eta1", "eta2", "etaMin",
          "cohesion", "fa", "g", "rho", "notchWidth"}
DivisorKeys(sc) ==
    IF sc = "isotropic" THEN {"U0", "g"} ELSE {"LS", "eta0", "U0", "g"}

\* sf as the scaling cell builds it
ScaleFactors(sc, d) ==
    IF sc = "isotropic"
    THEN LET LS == PyFloat(30, 3)
             eta0 == PyFloat(1, 22)
         IN [LS |-> LS, eta0 |-> eta0,
             stress |-> Quot(Prod(eta0, d["U0"]), LS),
             vel |-> d["U0"],
             density |-> Pow(LS, 3),
             g |-> d["g"],
             rho |-> Quot(Prod(eta0, d["U0"]), Prod(Pow(LS, 2), d["g"]))]
    ELSE [stress |-> Quot(Prod(d["eta0"], d["U0"]), d["LS"]),
          vel |-> d["U0"],
          density |-> Pow(d["LS"], 3),
          g |-> d["g"],
          rho |-> Quot(Prod(d["eta0"], d["U0"]),
                       Prod(Pow(d["LS"], 2), d["g"]))]

\* variant of the cell that scales the density by sf.density
NdpOfDensity(sc, d, s) ==
    IF sc = "isotropic"
    THEN [depth |-> Quot(d["depth"], s["LS"]),
          U0 |-> Quot(d["U0"], s["vel"]),
          asthenosphere |-> Quot(d["asthenosphere"], s["LS"]),
          eta1 |-> Quot(d["eta1"], s["eta0"]),
          eta2 |-> Quot(d["eta2"], s["eta0"]),
          etaMin |-> Quot(d["etaMin"], s["eta0"]),
          cohesion |-> Prod(Quot(d["cohesion"], s["stress"]),
                            Fn("cos", Radians(d["fa"]))),
          fa |-> Fn("sin", Radians(d["fa"])),
          g |-> Quot(d["g"], s["g"]),
          rho |-> Quot(d["rho"], s["density"]),
          notchWidth |-> Quot(d["notchWidth"], s["LS"]),
          a |-> d["a"],
          lam |-> Quot(d["lam"], s["eta0"])]
    ELSE [U |-> Quot(d["U0"], s["vel"]),
          asthenosphere |-> Quot(d["asthenosphere"], d["LS"]),
          eta1 |-> Quot(d["eta1"], d["eta0"]),
          eta2 |-> Quot(d["eta2"], d["eta0"]),
          etaMin |-> Quot(d["etaMin"], d["eta0"]),
          cohesion |-> Quot(d["cohesion"], s["stress"]),
          fa |-> Fn("tan", Radians(d["fa"])),
          g |-> Quot(d["g"], s["g"]),
          rho |-> Quot(d["rho"], s["density"]),
          notchWidth |-> Quot(d["notchWidth"], d["LS"]),
          a |-> d["a"]]

\* variant of the cell that derives the layer height and the notch width
\* from the depth it finds
NdpOfDepth(sc, d, s) ==
    IF sc = "isotropic"
    THEN [depth |-> Quot(d["depth"], s["LS"]),
          U0 |-> Quot(d["U0"], s["vel"]),
          asthenosphere |-> Quot(Quarter(d["depth"]), s["LS"]),
          eta1 |-> Quot(d["eta1"], s["eta0"]),
          eta2 |-> Quot(d["eta2"], s["eta0"]),
          etaMin |-> Quot(d["etaMin"], s["eta0"]),
          cohesion |-> Prod(Quot(d["cohesion"], s["stress"]),
                            Fn("cos", Radians(d["fa"]))),
          fa |-> Fn("sin", Radians(d["fa"])),
          g |-> Quot(d["g"], s["g"]),
          rho |-> Quot(d["rho"], s["rho"]),
          notchWidth |-> Quot(Sixteenth(d["depth"]), s["LS"]),
          a |-> d["a"],
          lam |-> Quot(d["lam"], s["eta0"])]
    ELSE [U |-> Quot(d["U0"], s["vel"]),
          asthenosphere |-> Quot(d["asthenosphere"], d["LS"]),
          eta1 |-> Quot(d["eta1"], d["eta0"]),
          eta2 |-> Quot(d["eta2"], d["eta0"]),
          etaMin |-> Quot(d["etaMin"], d["eta0"]),
          cohesion |-> Quot(d["cohesion"], s["stress"]),
          fa |-> Fn("tan", Radians(d["fa"])),
          g |-> Quot(d["g"], s["g"]),
          rho |-> Quot(d["rho"], s["rho"]),
          notchWidth |-> Quot(d["notchWidth"], d["LS"]),
          a |-> d["a"]]

\* ndp as the scaling cell builds it from dp (d) and sf (s)
NdpOf(sc, d, s) ==
    IF sc = "isotropic"
    THEN [depth |-> Quot(d["depth"], s["LS"]),
          U0 |-> Quot(d["U0"], s["vel"]),
          asthenosphere |-> Quot(d["asthenosphere"], s["LS"]),
          eta1 |-> Quot(d["eta1"], s["eta0"]),
          eta2 |-> Quot(d["eta2"], s["eta0"]),
          etaMin |-> Quot(d["etaMin"], s["eta0"]),
          cohesion |-> Prod(Quot(d["cohesion"], s["stress"]),
                            Fn("cos", Radians(d["fa"]))),
          fa |-> Fn("sin", Radians(d["fa"])),
          g |-> Quot(d["g"], s["g"]),
          rho |-> Quot(d["rho"], s["rho"]),
          notchWidth |-> Quot(d["notchWidth"], s["LS"]),
          a |-> d["a"],
          lam |-> Quot(d["lam"], s["eta0"])]
    ELSE [U |-> Quot(d["U0"], s["vel"]),
          asthenosphere |-> Quot(d["asthenosphere"], d["LS"]),
          eta1 |-> Quot(d["eta1"], d["eta0"]),
          eta2 |-> Quot(d["eta2"], d["eta0"]),
          etaMin |-> Quot(d["etaMin"], d["eta0"]),
          cohesion |-> Quot(d["cohesion"], s["stress"]),
          fa |-> Fn("tan", Radians(d["fa"])),
          g |-> Quot(d["g"], s["g"]),
          rho |-> Quot(d["rho"], s["rho"]),
          notchWidth |-> Quot(d["notchWidth"], d["LS"]),
          a |-> d["a"]]

\* the exception the scaling cells raise: arithmetic on a text is a
\* TypeError, division by zero a ZeroDivisionError
ScalingExc(sc, d) ==
    IF \E k \in ScaledKeys(sc) : ~IsNumber(d[k]) THEN "TypeError"
    ELSE IF \E k \in DivisorKeys(sc) : d[k].n = 0 THEN "ZeroDivisionError"
    ELSE "none"

(***************************************************************************)
(* Stokes system and solver options                                        *)
(***************************************************************************)
\* variant that sets the penalty whenever md.pen is truthy
SolverPenaltyAlways(sc, m) ==
    IF sc = "isotropic"
    THEN IF Truthy(m["pen"]) THEN <<m["pen"]>> ELSE <<>>
    ELSE <<PyFloat(1, 7)>>

\* the arguments of the calls made to solver.set_penalty
SolverPenalty(sc, m) ==
    IF sc = "isotropic"
    THEN IF Truthy(m["pen"]) /\ ~Truthy(m["comp"]) THEN <<m["pen"]>> ELSE <<>>
    ELSE <<PyFloat(1, 7)>>

\* whether stokes.fn_lambda is assigned
StokesLambda(sc, m) == sc = "isotropic" /\ Truthy(m["comp"])

(***************************************************************************)
(* Output directories and files.  A directory is named by its path without *)
(* the trailing "/"; fs is the set of directories that exist.              *)
(***************************************************************************)
RECURSIVE DropEmpty(_)
DropEmpty(parts) ==
    IF parts = <<>> THEN <<>>
    ELSE IF Head(parts) = "" THEN DropEmpty(Tail(parts))
    ELSE <<Head(parts)>> \o DropEmpty(Tail(parts))

Components(path) == DropEmpty(Split(path, "/"))

RECURSIVE JoinPath(_)
JoinPath(parts) ==
    IF parts = <<>> THEN ""
    ELSE IF Len(parts) = 1 THEN parts[1]
    ELSE parts[1] \o "/" \o JoinPath(Tail(parts))

NormPath(path) == JoinPath(Components(path))

\* the directory and all of its ancestors
Ancestors(path) ==
    {JoinPath(SubSeq(Components(path), 1, k)) : k \in 1..Len(Components(path))}

\* directory holding the file
ParentDir(path) ==
    JoinPath(SubSeq(Components(path), 1, Len(Components(path)) - 1))

\* os.path.isdir
IsDir(fsys, path) == NormPath(path) \in fsys

\* os.makedirs
MakeDirs(fsys, path) == fsys \cup Ancestors(path)

\* "if not os.path.isdir(p): os.makedirs(p)"
EnsureDir(fsys, path) == IF ~IsDir(fsys, path) THEN MakeDirs(fsys, path) ELSE fsys

\* os.path.join for a relative second part
PathJoin(a, b) ==
    IF a = "" \/ CharAt(a, Len(a)) = "/" THEN a \o b ELSE a \o "/" \o b

outputPath(M, N) == "results" \o "/" \o M \o "/" \o IntToStr(N) \o "/"
imagePath(M, N) == outputPath(M, N) \o "images/"
filePath(M, N) == outputPath(M, N) \o "files/"
checkpointPath(M, N) == outputPath(M, N) \o "checkpoint/"
dbPath(M, N) == outputPath(M, N) \o "gldbs/"

\* variant of the block without the last "if"
SetupDirsNoFiles(fsys, M, N) ==
    LET f1 == EnsureDir(fsys, outputPath(M, N))
        f2 == EnsureDir(f1, checkpointPath(M, N))
        f3 == EnsureDir(f2, imagePath(M, N))
    IN EnsureDir(f3, dbPath(M, N))

\* the rank-0 block that makes the directories, in its order
SetupDirs(fsys, M, N) ==
    LET f1 == EnsureDir(fsys, outputPath(M, N))
        f2 == EnsureDir(f1, checkpointPath(M, N))
        f3 == EnsureDir(f2, imagePath(M, N))
        f4 == EnsureDir(f3, dbPath(M, N))
    IN EnsureDir(f4, filePath(M, N))

\* the files a script writes, in the order it writes them
WriteTargets(sc, M, N) ==
    LET figs == IF sc = "isotropic"
                THEN <<imagePath(M, N) \o "figVisc.png",
                       imagePath(M, N) \o "figPres.png">>
                ELSE <<imagePath(M, N) \o "figSinv.png",
                       imagePath(M, N) \o "figVisc.png",
                       imagePath(M, N) \o "figPres.png">>
        fields == <<filePath(M, N) \o "vel.h5",
                    filePath(M, N) \o "pressure.h5",
                    filePath(M, N) \o "yvelsurf.h5",
                    filePath(M, N) \o "swarm.h5",
                    imagePath(M, N) \o "figTest2.png",
                    PathJoin(outputPath(M, N), "metrics.csv"),
                    PathJoin(outputPath(M, N), "solver.csv")>>
        params == IF sc = "isotropic"
                  THEN <<PathJoin(outputPath(M, N), "params.csv")>>
                  ELSE <<>>
    IN figs \o fields \o params

\* the characters of dictionary keys, in code-point order
Alphabet ==
    "*+-./0123456789=ABCDEFGHIJKLMNOPQRSTUVWXYZ_abcdefghijklmnopqrstuvwxyz"

\* ord(c), as the place of c in Alphabet
Code == [c \in {SubSeq(Alphabet, i, i) : i \in 1..Len(Alphabet)} |->
            Find(Alphabet, c)]
Ord(c) == IF c \in DOMAIN Code THEN Code[c] ELSE 0

\* a < b of two texts: code point by code point, a proper prefix first
RECURSIVE StrLess(_, _)
StrLess(a, b) ==
    IF b = "" THEN FALSE
    ELSE IF a = "" THEN TRUE
    ELSE IF Ord(Head(a)) # Ord(Head(b)) THEN Ord(Head(a)) < Ord(Head(b))
    ELSE StrLess(Tail(a), Tail(b))

\* sorted(d.keys())
RECURSIVE Sorted(_)
Sorted(keys) ==
    IF keys = {} THEN <<>>
    ELSE LET k == CHOOSE k \in keys : \A j \in keys : j = k \/ StrLess(k, j)
         IN <<k>> \o Sorted(keys \ {k})

\* [d[i] for i in sorted(d.keys())]
Row(d) ==
    LET keys == Sorted(DOMAIN d)
    IN [i \in 1..Len(keys) |-> d[keys[i]]]

\* variant that writes the md row before the ndp row
ParamsRowsMdFirst(d, n, m) == <<Row(d), Row(m), Row(n)>>

\* the three rows of params.csv
ParamsRows(d, n, m) == <<Row(d), Row(n), Row(m)>>

(***************************************************************************)
(* Picard iteration.  The velocity field is one value, the pressure field  *)
(* a pair <<top, bottom>> (one node on the top surface, one below); the    *)
(* domain integrals are sums over the nodes.  A residual abs(a/b) of two   *)
(* L2 norms is kept as [n |-> a^2, d |-> b^2]: d = 0 is the nan (n = 0) or *)
(* inf (n > 0) that the floating-point division gives.                     *)
(***************************************************************************)
VelDot(u, v) == u * v
PresDot(p, q) == p[1] * q[1] + p[2] * q[2]
PresSub(p, q) == <<p[1] - q[1], p[2] - q[2]>>

\* surface integral over the top of the domain
SurfaceIntegral(f) == f[1]
area == SurfaceIntegral(<<1, 1>>)

\* variant of the detrending that subtracts nothing
DetrendNone(p) == p

\* pressureField.data[:] -= p0 / area
Detrend(p) ==
    LET p0 == SurfaceIntegral(p)
    IN <<p[1] - (p0 \div area), p[2] - (p0 \div area)>>

\* delP as used for the pressure residual res2
DelP2(sc, p, prevP) ==
    IF sc = "isotropic" THEN PresSub(p, prevP) ELSE PresSub(p, p)

Res1(v, prevV) == [n |-> VelDot(v - prevV, v - prevV), d |-> VelDot(v, v)]
Res2(sc, p, prevP) ==
    [n |-> PresDot(DelP2(sc, p, prevP), DelP2(sc, p, prevP)), d |-> PresDot(p, p)]
Res3(v, prevV, p, prevP) ==
    [n |-> VelDot(v - prevV, v - prevV) + PresDot(PresSub(p, prevP), PresSub(p, prevP)),
     d |-> VelDot(v, v) + PresDot(p, p)]

\* a * 10^k < c, for a, c, k >= 0
RECURSIVE ScaledLt(_, _, _)
ScaledLt(a, k, c) ==
    IF k = 0 THEN a < c
    ELSE IF a = 0 THEN 0 < c
    ELSE IF a >= c THEN FALSE
    ELSE ScaledLt(a * 10, k - 1, c)

\* a < c * 10^k, for a, c, k >= 0
RECURSIVE LtScaled(_, _, _)
LtScaled(a, k, c) ==
    IF k = 0 THEN a < c
    ELSE IF c = 0 THEN FALSE
    ELSE IF a < c THEN TRUE
    ELSE LtScaled(a, k - 1, c * 10)

\* res < tol, for a numeric tol: sqrt(n/d) < tn * 10^te
Below(res, tol) ==
    IF res.d = 0 \/ tol.n <= 0 THEN FALSE
    ELSE IF tol.e < 0
         THEN ScaledLt(res.n, 0 - (2 * tol.e), tol.n * tol.n * res.d)
         ELSE LtScaled(res.n, 2 * tol.e, tol.n * tol.n * res.d)

\* variants of the stopping test: never stopping, and stopping at res1 <= tol
ConvergedNever(res1, tol) == FALSE
ConvergedAtTol(res1, tol) ==
    \/ Below(res1, tol)
    \/ res1.d # 0 /\ tol.e = 0 /\ res1.n = tol.n * tol.n * res1.d

\* "if res1 < md.tol: break"
Converged(res1, tol) == Below(res1, tol)

RECURSIVE Pow10(_)
Pow10(k) == IF k = 0 THEN 1 ELSE 10 * Pow10(k - 1)

\* int(v) of a number: truncation toward zero
PyIntOf(v) ==
    IF v.e >= 0 THEN v.n * Pow10(v.e)
    ELSE IF v.n >= 0 THEN v.n \div Pow10(0 - v.e)
    ELSE 0 - ((0 - v.n) \div Pow10(0 - v.e))

\* the value assigned to md.maxIts just before the loop
LoopMaxIts(sc) == IF sc = "isotropic" THEN PyFloat(10, 0) ELSE PyInt(4)

(***************************************************************************)
(* Bounds and input sets                                                   *)
(***************************************************************************)
MaxArgs == 2

\* arguments without "=": model selectors
SelectorTokens == {"3", "S", "-f", "07", "a/b"}

\* override tokens, well-formed and not
OverrideTokens ==
    {"dp.fa=10", "dp.fa*=3", "dp.new=abc", "dp.new*=3",
     "md.res=True", "md.flag=False", "md.res*=0.5",
     "dp.fa", "dp.fa==3", "dpfa=3", "dp.f.a=3", "dp.=3", "dp.fa=",
     "dp.fa*=abc", "md.res*=abc",
     "dpx.fa=3", "mdl.res*=3", "ndp.fa=3",
     "dp.depth=15000", "dp.notchWidth=100", "md.comp=True", "md.pen=False"}

Tokens == {"3", "07", "S", "-f"} \cup OverrideTokens

ArgLists(toks) == UNION {[1..k -> toks] : k \in 0..MaxArgs}

\* an assignment and a multiplication of one key, either way round, with any
\* one token in between
OrderLists ==
    {<<"dp.fa=10", t, "dp.fa*=3">> : t \in Tokens}
        \cup {<<"dp.fa*=3", t, "dp.fa=10">> : t \in Tokens}

\* command lines that leave the keys of dp alone, add one, or end the run in
\* the scaling cell
CsvArgs ==
    {<<>>, <<"3">>, <<"dp.fa=10">>, <<"dp.fa*=3">>, <<"md.flag=False">>,
     <<"dp.new=abc">>, <<"dp.new*=3">>, <<"dp.=3">>, <<"ndp.fa=3">>,
     <<"dp.fa=">>, <<"S", "dp.new=abc">>, <<"dp.new=abc", "dp.fa=10">>,
     <<"dp.depth=15000", "dp.notchWidth=100">>}

\* velocity and pressure fields the linear solver can return
VelVals == {0, 1}
PresVals == {<<0, 0>>, <<1, 1>>, <<0, 1>>}

\* number of MPI processes of a parallel run
NRanks == 2
Ranks == 0..(NRanks - 1)

\* coefficients np.polyfit can return, highest power first
FitVals == {<<2, 3>>, <<0 - 1, 0>>, <<1, 5>>}

\* command lines of the runs whose Picard loop is followed
PicardArgs == {<<>>, <<"md.tol=1">>, <<"md.maxIts=3">>}

\* directory trees that can exist before the run
PreTrees(M, N) ==
    LET dirs == {"results", "results/" \o M, outputPath(M, N),
                 imagePath(M, N), filePath(M, N),
                 checkpointPath(M, N), dbPath(M, N)}
    IN {UNION {Ancestors(d) : d \in S} : S \in SUBSET dirs}

(***************************************************************************)
(* Initial states                                                          *)
(***************************************************************************)
InitPicardVars ==
    /\ velocityField = 1
    /\ pressureField = <<0, 0>>
    /\ prevVelocityField = 0
    /\ prevPressureField = <<0, 0>>
    /\ iter = 0
    /\ count = 0
    /\ solves = 0
    /\ detrends = 0
    /\ res1Vals = <<>>
    /\ res2Vals = <<>>
    /\ res3Vals = <<>>
    /\ solverCsv = <<>>

\* sf, ndp, stokes and solver do not exist before their cells have run
InitSetupVars ==
    /\ sf = <<>>
    /\ ndp = <<>>
    /\ stokes = [fn_lambda |-> FALSE]
    /\ solver = [penalty |-> <<>>]

InitCliVars ==
    /\ Model = "T"
    /\ ModNum = 0
    /\ dp = DefaultDp(script)
    /\ md = DefaultMd(script)
    /\ argi = 1
    /\ written = {}
    /\ wi = 1
    /\ paramsCsv = <<>>

\* every process is at the top of the script; no name of the
\* post-processing cells is bound (<<>>) and swarm.h5 does not exist
InitMpiVars ==
    /\ rpc = [r \in Ranks |-> "dirs"]
    /\ swarmFile = [r \in Ranks |-> "absent"]
    /\ readParts = {}
    /\ pfit = <<>>
    /\ dydx = [r \in Ranks |-> <<>>]
    /\ const = [r \in Ranks |-> <<>>]
    /\ bcastBuf = <<>>
    /\ swarmCustom = [r \in Ranks |-> <<>>]

\* no name of the material, rheology and post-processing cells is bound
InitFieldVars ==
    /\ materialVariable = <<>>
    /\ plasticStrain = <<>>
    /\ strainRate_2ndInvariantFn = <<>>
    /\ yieldingViscosityFn = <<>>
    /\ viscosityFn = <<>>
    /\ viscosity2Fn = <<>>
    /\ secondViscosityFn = <<>>
    /\ eII_sig = <<>>
    /\ shearbandswarm = <<>>
    /\ in2sigRest = <<>>
    /\ out2sigRest = <<>>
    /\ shearArea = <<>>
    /\ backgroundArea = <<>>

\* command lines with overrides, run in an empty working directory
InitCli ==
    /\ script \in Scripts
    /\ argv \in ArgLists(Tokens) \cup OrderLists
    /\ pc = "select"
    /\ fs = {}
    /\ InitCliVars
    /\ InitPicardVars
    /\ InitSetupVars
    /\ InitMpiVars
    /\ InitFieldVars

\* selector-only command lines, run over any pre-existing part of the tree
InitDirs ==
    /\ script \in Scripts
    /\ argv \in ArgLists(SelectorTokens)
    /\ pc = "select"
    /\ fs \in PreTrees(SelectModel(argv).Model, SelectModel(argv).ModNum)
    /\ InitCliVars
    /\ InitPicardVars
    /\ InitSetupVars
    /\ InitMpiVars
    /\ InitFieldVars

\* command lines of CsvArgs, run in an empty working directory to the last
\* file write
InitCsv ==
    /\ script \in Scripts
    /\ argv \in CsvArgs
    /\ pc = "select"
    /\ fs = {}
    /\ InitCliVars
    /\ InitPicardVars
    /\ InitSetupVars
    /\ InitMpiVars
    /\ InitFieldVars

\* a parallel run with the default command line, in an empty working
\* directory or one that holds results/ already
InitMpi ==
    /\ script \in Scripts
    /\ argv = <<>>
    /\ pc = "mpi"
    /\ fs \in {{}, {"results"}}
    /\ InitCliVars
    /\ InitPicardVars
    /\ InitSetupVars
    /\ InitMpiVars
    /\ InitFieldVars

\* the state before the Picard cells, the overrides applied
InitPicard ==
    /\ script \in Scripts
    /\ argv \in PicardArgs
    /\ pc = "maxits"
    /\ fs = {}
    /\ Model = "T"
    /\ ModNum = 0
    /\ dp = OverrideArgs(argv, DefaultDp(script), DefaultMd(script)).dp
    /\ md = OverrideArgs(argv, DefaultDp(script), DefaultMd(script)).md
    /\ argi = 1
    /\ written = {}
    /\ wi = 1
    /\ paramsCsv = <<>>
    /\ InitPicardVars
    /\ InitSetupVars
    /\ InitMpiVars
    /\ InitFieldVars

(***************************************************************************)
(* Command line, directories, files                                        *)
(***************************************************************************)
SelectModelStep ==
    /\ pc = "select"
    /\ Model' = SelectModel(argv).Model
    /\ ModNum' = SelectModel(argv).ModNum
    /\ pc' = "dirs"
    /\ UNCHANGED <<setupVars, fieldVars, mpiVars>>
    /\ UNCHANGED <<script, argv, dp, md, argi, fsVars, picardVars>>

SetupDirsStep ==
    /\ pc = "dirs"
    /\ fs' = SetupDirs(fs, Model, ModNum)
    /\ pc' = IF Len(argv) = 0 THEN "nondim" ELSE "override"
    /\ UNCHANGED <<setupVars, fieldVars, mpiVars>>
    /\ UNCHANGED <<script, argv, cliVars, written, wi, paramsCsv,
                   picardVars>>

\* the bare "except:" catches every exception
Caught(exc) == TRUE

\* one pass of the override loop
OverrideStep ==
    /\ pc = "override"
    /\ argi <= Len(argv)
    /\ LET r == OverrideToken(argv[argi], dp, md)
       IN /\ dp' = r.dp
          /\ md' = r.md
          /\ pc' = IF r.exc # "none" /\ ~Caught(r.exc) THEN "crashed"
                   ELSE IF argi = Len(argv) THEN "nondim"
                   ELSE "override"
    /\ argi' = argi + 1
    /\ UNCHANGED <<setupVars, fieldVars, mpiVars>>
    /\ UNCHANGED <<script, argv, Model, ModNum, fsVars, picardVars>>

\* the scaling cells: sf, then ndp; an exception ends the run
NondimStep ==
    /\ pc = "nondim"
    /\ IF ScalingExc(script, dp) = "none"
       THEN /\ sf' = ScaleFactors(script, dp)
            /\ ndp' = NdpOf(script, dp, ScaleFactors(script, dp))
            /\ pc' = "solver"
       ELSE /\ pc' = "crashed"
            /\ UNCHANGED <<sf, ndp>>
    /\ UNCHANGED <<script, argv, cliVars, fsVars, picardVars, stokes, solver,
                   fieldVars, mpiVars>>

\* the Stokes system and the solver options
SolverSetupStep ==
    /\ pc = "solver"
    /\ stokes' = [fn_lambda |-> StokesLambda(script, md)]
    /\ solver' = [penalty |-> SolverPenalty(script, md)]
    /\ pc' = "write"
    /\ UNCHANGED <<script, argv, cliVars, fsVars, picardVars, sf, ndp,
                   fieldVars, mpiVars>>

\* the file is params.csv
IsParams(target) ==
    Len(target) >= 10 /\ SubSeq(target, Len(target) - 9, Len(target)) = "params.csv"

\* one file write; opening a file in a missing directory raises
WriteFileStep ==
    /\ pc = "write"
    /\ wi <= Len(WriteTargets(script, Model, ModNum))
    /\ LET target == WriteTargets(script, Model, ModNum)[wi]
       IN IF IsDir(fs, ParentDir(target))
          THEN /\ written' = written \cup {target}
               /\ paramsCsv' = IF IsParams(target)
                               THEN ParamsRows(dp, ndp, md)
                               ELSE paramsCsv
               /\ wi' = wi + 1
               /\ pc' = IF wi = Len(WriteTargets(script, Model, ModNum))
                        THEN "done" ELSE "write"
          ELSE /\ pc' = "crashed"
               /\ UNCHANGED <<written, wi, paramsCsv>>
    /\ UNCHANGED <<setupVars, fieldVars, mpiVars>>
    /\ UNCHANGED <<script, argv, cliVars, fs, picardVars>>

\* the script up to the solver set-up
NextArgs ==
    \/ SelectModelStep
    \/ SetupDirsStep
    \/ OverrideStep
    \/ NondimStep
    \/ SolverSetupStep

NextCli ==
    \/ NextArgs
    \/ WriteFileStep

(***************************************************************************)
(* Picard loop                                                             *)
(***************************************************************************)
NextCount(c) == c + 1

\* variant of the list update that keeps only the latest residual
AppendResLatest(vals, res) == <<res>>

AppendRes(vals, res) == Append(vals, res)

\* md.maxIts is reassigned, then count and the lists are reset
PicardSetMaxIts ==
    /\ pc = "maxits"
    /\ md' = [md EXCEPT !["maxIts"] = LoopMaxIts(script)]
    /\ count' = 0
    /\ res1Vals' = <<>>
    /\ res2Vals' = <<>>
    /\ res3Vals' = <<>>
    /\ iter' = 0
    /\ pc' = "for"
    /\ UNCHANGED <<detrends, setupVars, fieldVars, mpiVars>>
    /\ UNCHANGED <<script, argv, Model, ModNum, dp, argi, fsVars,
                   velocityField, pressureField, prevVelocityField,
                   prevPressureField, solves, solverCsv>>

\* loop head with a next i: the snapshots are taken
PicardSnapshot ==
    /\ pc = "for"
    /\ iter < PyIntOf(md["maxIts"])
    /\ prevVelocityField' = velocityField
    /\ prevPressureField' = pressureField
    /\ pc' = "solve"
    /\ UNCHANGED <<detrends, setupVars, fieldVars, mpiVars>>
    /\ UNCHANGED <<script, argv, cliVars, fsVars, velocityField, pressureField,
                   iter, count, solves, res1Vals, res2Vals, res3Vals, solverCsv>>

\* loop head with the range exhausted
PicardExhausted ==
    /\ pc = "for"
    /\ iter >= PyIntOf(md["maxIts"])
    /\ pc' = "post"
    /\ UNCHANGED <<setupVars, fieldVars, mpiVars>>
    /\ UNCHANGED <<script, argv, cliVars, fsVars, picardVars>>

\* solver.solve: the library returns some velocity and pressure
PicardSolve ==
    /\ pc = "solve"
    /\ \E v \in VelVals, p \in PresVals :
          /\ velocityField' = v
          /\ pressureField' = p
    /\ solves' = solves + 1
    /\ pc' = "detrend"
    /\ UNCHANGED <<detrends, setupVars, fieldVars, mpiVars>>
    /\ UNCHANGED <<script, argv, cliVars, fsVars, prevVelocityField,
                   prevPressureField, iter, count,
                   res1Vals, res2Vals, res3Vals, solverCsv>>

PicardDetrend ==
    /\ pc = "detrend"
    /\ pressureField' = Detrend(pressureField)
    /\ detrends' = detrends + 1
    /\ pc' = "norms"
    /\ UNCHANGED <<setupVars, fieldVars, mpiVars>>
    /\ UNCHANGED <<script, argv, cliVars, fsVars, velocityField,
                   prevVelocityField, prevPressureField, iter, count, solves,
                   res1Vals, res2Vals, res3Vals, solverCsv>>

\* norms, residuals, bookkeeping and the stopping test
PicardResiduals ==
    /\ pc = "norms"
    /\ LET res1 == Res1(velocityField, prevVelocityField)
           res2 == Res2(script, pressureField, prevPressureField)
           res3 == Res3(velocityField, prevVelocityField,
                        pressureField, prevPressureField)
       IN /\ res1Vals' = AppendRes(res1Vals, res1)
          /\ res2Vals' = AppendRes(res2Vals, res2)
          /\ res3Vals' = AppendRes(res3Vals, res3)
          /\ pc' = IF Converged(res1, md["tol"]) THEN "post" ELSE "for"
    /\ count' = NextCount(count)
    /\ iter' = iter + 1
    /\ UNCHANGED <<detrends, setupVars, fieldVars, mpiVars>>
    /\ UNCHANGED <<script, argv, Model, ModNum, dp, md, argi, fsVars,
                   velocityField, pressureField, prevVelocityField,
                   prevPressureField, solves, solverCsv>>

\* rank 0 writes the three residual lists as the rows of solver.csv
WriteSolverCsv ==
    /\ pc = "post"
    /\ solverCsv' = <<res1Vals, res2Vals, res3Vals>>
    /\ pc' = "done"
    /\ UNCHANGED <<detrends, setupVars, fieldVars, mpiVars>>
    /\ UNCHANGED <<script, argv, cliVars, fsVars, velocityField, pressureField,
                   prevVelocityField, prevPressureField, iter, count, solves,
                   res1Vals, res2Vals, res3Vals>>

NextPicard ==
    \/ PicardSetMaxIts
    \/ PicardSnapshot
    \/ PicardExhausted
    \/ PicardSolve
    \/ PicardDetrend
    \/ PicardResiduals
    \/ WriteSolverCsv

(***************************************************************************)
(* Parallel run: every process executes the same script.  rpc[r] is the    *)
(* position of process r, one label per stretch of the script between      *)
(* synchronisation points.                                                 *)
(***************************************************************************)
Program ==
    <<"dirs", "barrier1", "params", "barrier2", "model", "save", "saving",
      "metrics", "read", "barrier3", "assign", "barrier4", "bcast",
      "barrier5", "custom", "done">>
Barriers == {"barrier1", "barrier2", "barrier3", "barrier4", "barrier5"}

Pos(l) == CHOOSE i \in 1..Len(Program) : Program[i] = l
NextLabel(l) == Program[Pos(l) + 1]

\* variant of the barrier that lets a process through at once
BarrierOpenAlways(b, pcs) == TRUE

\* comm.Barrier() returns once every process has called it
BarrierOpen(b, pcs) == \A q \in DOMAIN pcs : Pos(pcs[q]) >= Pos(b)

\* np.poly1d(z): indexed by power
Poly1d(z) == [k \in 0..(Len(z) - 1) |-> z[Len(z) - k]]

\* variant of the broadcast that returns the caller's own object
BcastLocal(obj, rootObj) == obj

\* comm.bcast(obj, root=0): the root's object on every process
Bcast(obj, rootObj) == rootObj

\* the "if uw.rank()==0" block creating the directories
RankSetupDirs(r) ==
    /\ rpc[r] = "dirs"
    /\ fs' = IF r = 0 THEN SetupDirs(fs, Model, ModNum) ELSE fs
    /\ rpc' = [rpc EXCEPT ![r] = NextLabel(rpc[r])]
    /\ UNCHANGED <<script, argv, pc, cliVars, written, wi, picardVars,
                   setupVars, fieldVars, paramsCsv, swarmFile, readParts, pfit, dydx, const,
                   bcastBuf, swarmCustom>>

RankBarrier(r) ==
    /\ rpc[r] \in Barriers
    /\ BarrierOpen(rpc[r], rpc)
    /\ rpc' = [rpc EXCEPT ![r] = NextLabel(rpc[r])]
    /\ UNCHANGED <<script, argv, pc, cliVars, fsVars, picardVars, setupVars,
                   fieldVars,
                   swarmFile, readParts, pfit, dydx, const, bcastBuf,
                   swarmCustom>>

\* the cells between the synchronisation points
RankCompute(r) ==
    /\ rpc[r] \in {"params", "model", "metrics"}
    /\ rpc' = [rpc EXCEPT ![r] = NextLabel(rpc[r])]
    /\ UNCHANGED <<script, argv, pc, cliVars, fsVars, picardVars, setupVars,
                   fieldVars,
                   swarmFile, readParts, pfit, dydx, const, bcastBuf,
                   swarmCustom>>

\* shearbandswarm.save: the process starts writing its part of swarm.h5
SwarmSaveBegin(r) ==
    /\ rpc[r] = "save"
    /\ swarmFile' = [swarmFile EXCEPT ![r] = "writing"]
    /\ rpc' = [rpc EXCEPT ![r] = NextLabel(rpc[r])]
    /\ UNCHANGED <<script, argv, pc, cliVars, fsVars, picardVars, setupVars,
                   fieldVars,
                   readParts, pfit, dydx, const, bcastBuf, swarmCustom>>

\* shearbandswarm.save returns: the part is written
SwarmSaveEnd(r) ==
    /\ rpc[r] = "saving"
    /\ swarmFile' = [swarmFile EXCEPT ![r] = "saved"]
    /\ rpc' = [rpc EXCEPT ![r] = NextLabel(rpc[r])]
    /\ UNCHANGED <<script, argv, pc, cliVars, fsVars, picardVars, setupVars,
                   fieldVars,
                   readParts, pfit, dydx, const, bcastBuf, swarmCustom>>

\* rank 0 opens swarm.h5, reads the points and fits a line to them
RankReadSwarm(r) ==
    /\ rpc[r] = "read"
    /\ IF r = 0
       THEN /\ readParts' = {q \in Ranks : swarmFile[q] = "saved"}
            /\ \E z \in FitVals : pfit' = Poly1d(z)
       ELSE UNCHANGED <<readParts, pfit>>
    /\ rpc' = [rpc EXCEPT ![r] = NextLabel(rpc[r])]
    /\ UNCHANGED <<script, argv, pc, cliVars, fsVars, picardVars, setupVars,
                   fieldVars,
                   swarmFile, dydx, const, bcastBuf, swarmCustom>>

\* dydx, const: the fit on rank 0, the placeholders 1. and 0. elsewhere
RankAssign(r) ==
    /\ rpc[r] = "assign"
    /\ dydx' = [dydx EXCEPT ![r] = IF r = 0 THEN <<pfit[1]>> ELSE <<1>>]
    /\ const' = [const EXCEPT ![r] = IF r = 0 THEN <<pfit[0]>> ELSE <<0>>]
    /\ rpc' = [rpc EXCEPT ![r] = NextLabel(rpc[r])]
    /\ UNCHANGED <<script, argv, pc, cliVars, fsVars, picardVars, setupVars,
                   fieldVars,
                   swarmFile, readParts, pfit, bcastBuf, swarmCustom>>

\* the two broadcasts; a process other than the root waits for the root
RankBcast(r) ==
    /\ rpc[r] = "bcast"
    /\ IF r = 0
       THEN /\ bcastBuf' = <<dydx[0], const[0]>>
            /\ dydx' = [dydx EXCEPT ![r] = Bcast(dydx[r], dydx[0])]
            /\ const' = [const EXCEPT ![r] = Bcast(const[r], const[0])]
       ELSE /\ bcastBuf # <<>>
            /\ dydx' = [dydx EXCEPT ![r] = Bcast(dydx[r], bcastBuf[1])]
            /\ const' = [const EXCEPT ![r] = Bcast(const[r], bcastBuf[2])]
            /\ UNCHANGED bcastBuf
    /\ rpc' = [rpc EXCEPT ![r] = NextLabel(rpc[r])]
    /\ UNCHANGED <<script, argv, pc, cliVars, fsVars, picardVars, setupVars,
                   fieldVars,
                   swarmFile, readParts, pfit, swarmCustom>>

\* swarmCustom gets its particles on the line dydx*x + const
RankBuildCustom(r) ==
    /\ rpc[r] = "custom"
    /\ swarmCustom' = [swarmCustom EXCEPT ![r] = <<dydx[r][1], const[r][1]>>]
    /\ rpc' = [rpc EXCEPT ![r] = NextLabel(rpc[r])]
    /\ UNCHANGED <<script, argv, pc, cliVars, fsVars, picardVars, setupVars,
                   fieldVars,
                   swarmFile, readParts, pfit, dydx, const, bcastBuf>>

NextMpi ==
    \/ \E r \in Ranks : RankSetupDirs(r)
    \/ \E r \in Ranks : RankBarrier(r)
    \/ \E r \in Ranks : RankCompute(r)
    \/ \E r \in Ranks : SwarmSaveBegin(r)
    \/ \E r \in Ranks : SwarmSaveEnd(r)
    \/ \E r \in Ranks : RankReadSwarm(r)
    \/ \E r \in Ranks : RankAssign(r)
    \/ \E r \in Ranks : RankBcast(r)
    \/ \E r \in Ranks : RankBuildCustom(r)

(***************************************************************************)
(* Materials, rheology and shear-band metrics on sample points.            *)
(* Lengths are in units of 1/48 of the layer depth, so that the default    *)
(* ndp.asthenosphere (1/4) is 12, ndp.notchWidth (1/16) is 3, the top 1.0  *)
(* is 48, the side walls are at -96 and 96 and minX/1.5 is -64.  In this   *)
(* part ndp holds the numbers themselves: the lengths in these units, the  *)
(* viscosities in units of the default ndp.etaMin.                         *)
(***************************************************************************)
Top == 48
minX(sc, m) == IF sc = "isotropic" THEN 0 - 24 * PyIntOf(m["aspectRatio"])
               ELSE 0 - 96
Abs(i) == IF i < 0 THEN 0 - i ELSE i

\* x and y of the sample particles: the walls, both sides of every level
\* and abscissa a condition names, and points on them
Xs == {0 - 96, 0 - 65, 0 - 64, 0 - 63, 0 - 10, 0 - 7, 0 - 6, 0 - 5, 0 - 4,
       0 - 3, 0 - 2, 0, 2, 3, 4, 10, 96}
Ys(n) ==
    {0, n.asthenosphere - 1, n.asthenosphere, n.asthenosphere + 1,
     n.asthenosphere + 2, n.asthenosphere + n.notchWidth,
     n.asthenosphere + n.notchWidth + 1, Top - n.notchWidth - 1,
     Top - n.notchWidth, Top - n.notchWidth + 1, Top, Top + 1}
\* ten times maxY: maxY is 1.0, or 1.1 with md.stickyAir
maxY10(m) == IF Truthy(m["stickyAir"]) THEN 11 * Top ELSE 10 * Top

\* the sample particles, all inside the mesh
Particles(m, n) == Xs \X {y \in Ys(n) : 10 * y <= maxY10(m)}

\* ndp.notchWidth*exp(-(x - mu)**2/(2*sig**2)) with sig = 0.25*ndp.notchWidth
\* and ndp.notchWidth = 3, in millionths of a unit, d = |x - mu|:
\* 3*exp(-8*d*d/9).  From d = 4 to d = 6 the bump is below one millionth but
\* still changes the sum with ndp.asthenosphere; from d = 7 on the sum is
\* ndp.asthenosphere itself in double precision.
GausBump(d) ==
    CASE d = 0 -> 3000000
      [] d = 1 -> 1233336
      [] d = 2 -> 85698
      [] d = 3 -> 1006
      [] d \in 4..6 -> 1
      [] OTHER -> 0

\* coord[1] < gausFn, the bump centred on mu
BelowGaus(n, mu, pt) ==
    (pt[2] - n.asthenosphere) * 1000000 < GausBump(Abs(pt[1] - mu))

notchCond(n, pt) ==
    /\ pt[2] < n.asthenosphere + n.notchWidth
    /\ pt[1] < n.notchWidth
    /\ pt[1] > 0 - n.notchWidth

\* variant of the conditional that returns the value of the last true clause
ConditionalLast(clauses) ==
    LET hits == {i \in 1..Len(clauses) : clauses[i][1]}
    IN clauses[CHOOSE i \in hits : \A j \in hits : j <= i][2]

\* fn.branching.conditional: the value of the first clause that is true
Conditional(clauses) ==
    LET hits == {i \in 1..Len(clauses) : clauses[i][1]}
    IN clauses[CHOOSE i \in hits : \A j \in hits : i <= j][2]

material0 == 0
material1 == 1
material2 == 2

conditions(n, pt) ==
    <<<<pt[2] > Top, material0>>,
      <<pt[2] < n.asthenosphere, material2>>,
      <<BelowGaus(n, n.notchWidth, pt), material2>>,
      <<BelowGaus(n, 0 - n.notchWidth, pt), material2>>,
      <<notchCond(n, pt), material2>>,
      <<TRUE, material1>>>>

\* md.perturb == 0 (False and 0.0 are equal to 0, a text is not)
PerturbIsZero(m) == IsNumber(m["perturb"]) /\ m["perturb"].n = 0

\* ti_model.py always evaluates the conditional, isotropic.py only with
\* md.perturb == 0
UsesConditional(sc, m) == sc = "ti_model" \/ PerturbIsZero(m)

\* the material index the script gives the particle pt
MaterialOf(sc, m, n, pt) ==
    IF UsesConditional(sc, m) THEN Conditional(conditions(n, pt))
    ELSE IF pt[2] < n.asthenosphere THEN material2 ELSE material1

\* the filtered random field on the particles, in units of its half
\* maximum: uniform, or changing from particle to particle
RandomFields(m, n) ==
    {[pt \in Particles(m, n) |-> 1],
     [pt \in Particles(m, n) |-> IF (pt[1] + pt[2]) % 2 = 0 THEN 2 ELSE 0]}

\* plasticStrain after the perturbation cell; the two Gaussians and the
\* boundary taper multiply by positive factors, kept as 1
PerturbedStrain(m, n, rf) ==
    [pt \in Particles(m, n) |-> IF pt[2] < n.asthenosphere THEN 0 ELSE rf[pt]]

\* values of md.perturb: the default 1, and 0.0 and False from the command
\* line
PerturbVals == {PyInt(1), PyFloat(0, 0), PyBool(FALSE)}

\* levels of the asthenosphere: the default and a raised one
NdpVals ==
    {[asthenosphere |-> a, notchWidth |-> 3, etaMin |-> e[1],
      eta1 |-> e[2], eta2 |-> e[3]] :
        a \in {12, 24}, e \in {<<1, 1000, 10>>, <<4, 2, 10>>}}

MaterialStep ==
    /\ pc = "material"
    /\ materialVariable' =
          [pt \in Particles(md, ndp) |-> MaterialOf(script, md, ndp, pt)]
    /\ pc' = "strain"
    /\ UNCHANGED <<plasticStrain, strainRate_2ndInvariantFn,
                   yieldingViscosityFn, viscosityFn, viscosity2Fn,
                   secondViscosityFn, eII_sig, shearbandswarm, in2sigRest,
                   out2sigRest, shearArea, backgroundArea>>
    /\ UNCHANGED <<script, argv, cliVars, fsVars, picardVars, setupVars,
                   mpiVars>>

\* the cohesion-weakening seed of isotropic.py
PlasticStrainStep ==
    /\ pc = "strain"
    /\ IF script = "isotropic" /\ ~PerturbIsZero(md)
       THEN \E rf \in RandomFields(md, ndp) :
               plasticStrain' = PerturbedStrain(md, ndp, rf)
       ELSE UNCHANGED plasticStrain
    /\ pc' = "rheology"
    /\ UNCHANGED <<materialVariable, strainRate_2ndInvariantFn,
                   yieldingViscosityFn, viscosityFn, viscosity2Fn,
                   secondViscosityFn, eII_sig, shearbandswarm, in2sigRest,
                   out2sigRest, shearArea, backgroundArea>>
    /\ UNCHANGED <<script, argv, cliVars, fsVars, picardVars, setupVars,
                   mpiVars>>

\* Numbers of the rheology and of the metrics are fractions [n, d] in lowest
\* terms with d > 0.
RECURSIVE Gcd(_, _)
Gcd(a, b) == IF b = 0 THEN a ELSE Gcd(b, a % b)
Frac(a, b) ==
    LET g == Gcd(Abs(a), Abs(b))
    IN IF b < 0 THEN [n |-> (0 - a) \div g, d |-> (0 - b) \div g]
       ELSE [n |-> a \div g, d |-> b \div g]
Whole(i) == [n |-> i, d |-> 1]
FracAdd(p, q) == Frac(p.n * q.d + q.n * p.d, p.d * q.d)
FracSub(p, q) == Frac(p.n * q.d - q.n * p.d, p.d * q.d)
FracMul(p, q) == Frac(p.n * q.n, p.d * q.d)
FracInv(p) == Frac(p.d, p.n)
FracAbs(p) == [n |-> Abs(p.n), d |-> p.d]
FracLess(p, q) == p.n * q.d < q.n * p.d
FracMax(p, q) == IF FracLess(p, q) THEN q ELSE p
FracMin(p, q) == IF FracLess(q, p) THEN q ELSE p

\* yield stresses (either sign) and strain rates at a point; the strain
\* rates are in units of the small number the code adds to them
StressVals == {0 - 4000, 0 - 2000, 0 - 1, 0, 1, 8, 4000}
RateVals == {0, 1, 3}
ShearRateVals == {0 - 3, 0, 1}

\* 0.5 * yieldStressFn / (strainRate_2ndInvariantFn + 1.0e-18)
YieldingViscosity(ys, e) == Frac(ys, 2 * (e + 1))

\* a division by zero inside the subject of SafeMaths, which raises
SafeMathsRaises(yv, n) ==
    \/ yv.n = 0
    \/ FracAdd(FracInv(yv), FracInv(Whole(n.eta1))).n = 0

\* variant without the floor ndp.etaMin
compositeNoFloor(yv, n) ==
    FracInv(FracAdd(FracInv(yv), FracInv(Whole(n.eta1))))

\* max(1./((1./yieldingViscosityFn) + (1./ndp.eta1)), ndp.etaMin)
compositeviscosityFn(yv, n) ==
    FracMax(FracInv(FracAdd(FracInv(yv), FracInv(Whole(n.eta1)))),
            Whole(n.etaMin))

\* viscosityMap of isotropic.py at a point with yielding viscosity yv
viscosityMap(yv, n) ==
    [m \in {material0, material1, material2} |->
        CASE m = material0 -> Whole(n.etaMin)
          [] m = material1 -> compositeviscosityFn(yv, n)
          [] m = material2 -> Whole(n.eta2)]

\* visc0 = 0.01 of ti_model.py, in units of the default ndp.etaMin (1e-4)
visc0 == 100

\* backgroundViscosityFn of ti_model.py
backgroundViscosityFn(n) ==
    [m \in {material0, material1, material2} |->
        CASE m = material0 -> Whole(visc0)
          [] m = material1 -> Whole(n.eta1)
          [] m = material2 -> Whole(n.eta2)]

\* (ndp.fa*(lithPressureFn + ndp.a*pressureField) + ndp.cohesion)
\*     / (abs(edots_SFn) + 1.0e-15)
Viscosity2(stress, edots) == Frac(stress, Abs(edots) + 1)

\* variant without the max(0.0, ...)
delviscosity2NoMax(bg, v2, n) ==
    FracMin(FracSub(bg, Whole(n.etaMin)), FracSub(bg, v2))

\* min(backgroundViscosityFn - ndp.etaMin,
\*     max(0.0, backgroundViscosityFn - viscosity2Fn))
delviscosity2fn(bg, v2, n) ==
    FracMin(FracSub(bg, Whole(n.etaMin)),
            FracMax(Whole(0), FracSub(bg, v2)))

\* delviscosity2Map of ti_model.py at a point with second viscosity v2
delviscosity2Map(v2, n) ==
    [m \in {material0, material1, material2} |->
        CASE m = material0 -> Whole(0)
          [] m = material1 -> delviscosity2fn(backgroundViscosityFn(n)[m], v2, n)
          [] m = material2 -> Whole(0)]

\* the viscosity functions evaluated at a point; in isotropic.py a
\* floating-point exception of the composite viscosity ends the run
RheologyStep ==
    /\ pc = "rheology"
    /\ IF script = "isotropic"
       THEN \E ys \in StressVals, e \in RateVals :
               /\ yieldingViscosityFn' = YieldingViscosity(ys, e)
               /\ IF SafeMathsRaises(YieldingViscosity(ys, e), ndp)
                  THEN /\ pc' = "crashed"
                       /\ UNCHANGED viscosityFn
                  ELSE /\ pc' = "solve"
                       /\ viscosityFn' =
                             viscosityMap(YieldingViscosity(ys, e), ndp)
               /\ UNCHANGED <<viscosity2Fn, secondViscosityFn>>
       ELSE \E st \in StressVals, ed \in ShearRateVals :
               /\ viscosity2Fn' = Viscosity2(st, ed)
               /\ secondViscosityFn' = delviscosity2Map(Viscosity2(st, ed), ndp)
               /\ pc' = "solve"
               /\ UNCHANGED <<yieldingViscosityFn, viscosityFn>>
    /\ UNCHANGED <<materialVariable, plasticStrain, strainRate_2ndInvariantFn,
                   eII_sig, shearbandswarm, in2sigRest, out2sigRest,
                   shearArea, backgroundArea>>
    /\ UNCHANGED <<script, argv, cliVars, fsVars, picardVars, setupVars,
                   mpiVars>>

\* strain-rate invariants of the solved flow, one value for each sample
\* abscissa: uniform (zero or not), or raised in one or two bands
StrainRateFields ==
    {[x \in Xs |-> 0],
     [x \in Xs |-> 1],
     [x \in Xs |-> IF x \in {0 - 7, 0 - 6} THEN 16 ELSE 1],
     [x \in Xs |-> IF x \in {0 - 65, 0 - 7} THEN 16
                   ELSE IF x = 0 - 10 THEN 14 ELSE 2],
     [x \in Xs |-> IF x = 2 THEN 12 ELSE 0]}

\* strainRate_2ndInvariantFn.evaluate at a point
Eval(f, pt) == Whole(f[pt[1]])

\* the sum of the integer function g over S: each value times the number
\* of points that have it
RECURSIVE WeightedSum(_, _, _)
WeightedSum(vals, S, g) ==
    IF vals = {} THEN 0
    ELSE LET v == CHOOSE v \in vals : TRUE
         IN v * Cardinality({q \in S : g[q] = v})
                + WeightedSum(vals \ {v}, S, g)
SumOver(S, g) == WeightedSum({g[q] : q \in S}, S, g)

\* width 4 by height maxY
MeshArea(m) == Frac(4 * maxY10(m), 10 * Top)

\* uw.utils.Integral(g, mesh).evaluate()[0]: the sample particles are the
\* integration points, of equal weight
Integral(g, m, n) ==
    FracMul(FracMul(MeshArea(m), Frac(1, Cardinality(Particles(m, n)))),
            Whole(SumOver(Particles(m, n), g)))

\* eII_sig of isotropic.py, eII_2sig of ti_model.py
Threshold(sc, mean, std) ==
    IF sc = "isotropic" THEN FracAdd(mean, FracMul(Frac(3, 2), std))
    ELSE FracAdd(mean, FracMul(Whole(2), std))

eii_mean(f, m, n) ==
    FracMul(Integral([pt \in Particles(m, n) |-> f[pt[1]]], m, n), Frac(1, 4))

\* the integral of sqrt(0.25*(strainRate_2ndInvariantFn - eii_mean)**2.):
\* the integrand is abs(d*e - n)/(2*d) for eii_mean = n/d, and the constant
\* 1/(2*d) is taken out of the integral
eii_std(f, mean, m, n) ==
    FracMul(Frac(1, 2 * mean.d),
            Integral([pt \in Particles(m, n) |->
                         Abs(mean.d * f[pt[1]] - mean.n)], m, n))

\* eII_sig (eII_2sig in ti_model.py) from the strain-rate field f
ShearBandThreshold(sc, f, m, n) ==
    LET mean == eii_mean(f, m, n)
    IN Threshold(sc, mean, eii_std(f, mean, m, n))

\* the coordinates (1e20, 1e20) given to the particles to delete
Far == <<1000000, 1000000>>

InMesh(m, pt) ==
    /\ pt[1] >= 0 - 96
    /\ pt[1] <= 96
    /\ pt[2] >= 0
    /\ 10 * pt[2] <= maxY10(m)

\* variant for a swarm that keeps the particles outside the mesh
KeepEscaped(sw, m) == sw

\* update_particle_owners of a swarm made with particleEscape=True: the
\* particles outside the mesh are deleted
update_particle_owners(sw, m) == {pt \in sw : InMesh(m, pt)}

\* the three masks of the filtering cell
Mask1(f, thr, pt) == FracLess(Eval(f, pt), thr)
Mask2(sc, m, n, pt) ==
    \/ pt[2] < n.asthenosphere + n.notchWidth
    \/ pt[2] > Top - n.notchWidth
    \/ (sc = "isotropic" /\ 3 * pt[1] < 2 * minX(sc, m))
Mask3(n, pt) == pt[1] > 0 - 2 * n.notchWidth

\* conds and conds2 at a point
conds(f, thr, n, pt) ==
    <<<<FracLess(thr, Eval(f, pt))
           /\ pt[2] > n.asthenosphere + n.notchWidth, 1>>,
      <<TRUE, 0>>>>

\* variant of conds2 that takes the points on the threshold too
conds2OrEqual(f, thr, n, pt) ==
    <<<<~FracLess(thr, Eval(f, pt))
           /\ pt[2] > n.asthenosphere + n.notchWidth, 1>>,
      <<TRUE, 0>>>>

conds2(f, thr, n, pt) ==
    <<<<FracLess(Eval(f, pt), thr)
           /\ pt[2] > n.asthenosphere + n.notchWidth, 1>>,
      <<TRUE, 0>>>>

\* the strain rate of the solved flow
StrainRateStep ==
    /\ pc = "solve"
    /\ \E f \in StrainRateFields : strainRate_2ndInvariantFn' = f
    /\ pc' = "sigma"
    /\ UNCHANGED <<materialVariable, plasticStrain, yieldingViscosityFn,
                   viscosityFn, viscosity2Fn, secondViscosityFn, eII_sig,
                   shearbandswarm, in2sigRest, out2sigRest, shearArea,
                   backgroundArea>>
    /\ UNCHANGED <<script, argv, cliVars, fsVars, picardVars, setupVars,
                   mpiVars>>

\* the shear-band threshold
ThresholdStep ==
    /\ pc = "sigma"
    /\ eII_sig' = ShearBandThreshold(script, strainRate_2ndInvariantFn, md, ndp)
    /\ pc' = "populate"
    /\ UNCHANGED <<materialVariable, plasticStrain,
                   strainRate_2ndInvariantFn, yieldingViscosityFn,
                   viscosityFn, viscosity2Fn, secondViscosityFn,
                   shearbandswarm, in2sigRest, out2sigRest, shearArea,
                   backgroundArea>>
    /\ UNCHANGED <<script, argv, cliVars, fsVars, picardVars, setupVars,
                   mpiVars>>

\* shearbandswarm.populate_using_layout
PopulateStep ==
    /\ pc = "populate"
    /\ shearbandswarm' = Particles(md, ndp)
    /\ pc' = "filter1"
    /\ UNCHANGED <<materialVariable, plasticStrain,
                   strainRate_2ndInvariantFn, yieldingViscosityFn,
                   viscosityFn, viscosity2Fn, secondViscosityFn, eII_sig,
                   in2sigRest, out2sigRest, shearArea, backgroundArea>>
    /\ UNCHANGED <<script, argv, cliVars, fsVars, picardVars, setupVars,
                   mpiVars>>

\* the three passes: the masked particles are moved to Far, then the swarm
\* drops what is outside the mesh
FilterStep ==
    /\ pc \in {"filter1", "filter2", "filter3"}
    /\ LET masked(pt) ==
               CASE pc = "filter1" ->
                        Mask1(strainRate_2ndInvariantFn, eII_sig, pt)
                 [] pc = "filter2" -> Mask2(script, md, ndp, pt)
                 [] pc = "filter3" -> Mask3(ndp, pt)
           moved == {IF masked(pt) THEN Far ELSE pt : pt \in shearbandswarm}
       IN shearbandswarm' = update_particle_owners(moved, md)
    /\ pc' = CASE pc = "filter1" -> "filter2"
               [] pc = "filter2" -> "filter3"
               [] pc = "filter3" -> "areas"
    /\ UNCHANGED <<materialVariable, plasticStrain,
                   strainRate_2ndInvariantFn, yieldingViscosityFn,
                   viscosityFn, viscosity2Fn, secondViscosityFn, eII_sig,
                   in2sigRest, out2sigRest, shearArea, backgroundArea>>
    /\ UNCHANGED <<script, argv, cliVars, fsVars, picardVars, setupVars,
                   mpiVars>>

\* the indicator functions and their integrals
AreasStep ==
    /\ pc = "areas"
    /\ LET in2 == [pt \in Particles(md, ndp) |->
                      Conditional(conds(strainRate_2ndInvariantFn, eII_sig,
                                        ndp, pt))]
           out2 == [pt \in Particles(md, ndp) |->
                       Conditional(conds2(strainRate_2ndInvariantFn, eII_sig,
                                          ndp, pt))]
       IN /\ in2sigRest' = in2
          /\ out2sigRest' = out2
          /\ shearArea' = Integral(in2, md, ndp)
          /\ backgroundArea' = Integral(out2, md, ndp)
    /\ pc' = "done"
    /\ UNCHANGED <<materialVariable, plasticStrain,
                   strainRate_2ndInvariantFn, yieldingViscosityFn,
                   viscosityFn, viscosity2Fn, secondViscosityFn, eII_sig,
                   shearbandswarm>>
    /\ UNCHANGED <<script, argv, cliVars, fsVars, picardVars, setupVars,
                   mpiVars>>

\* md of the runs followed through the material, rheology and metrics cells
FieldMds(sc) ==
    IF sc = "isotropic"
    THEN {[[DefaultMd(sc) EXCEPT !["perturb"] = p] EXCEPT !["stickyAir"] = a] :
             p \in PerturbVals, a \in {PyBool(FALSE), PyBool(TRUE)}}
    ELSE {[DefaultMd(sc) EXCEPT !["stickyAir"] = a] :
             a \in {PyBool(FALSE), PyBool(TRUE)}}

\* the state before the material cell: the particles carry no plastic strain
InitFields ==
    /\ script \in Scripts
    /\ argv = <<>>
    /\ pc = "material"
    /\ fs = {}
    /\ Model = "T"
    /\ ModNum = 0
    /\ dp = DefaultDp(script)
    /\ md \in FieldMds(script)
    /\ argi = 1
    /\ written = {}
    /\ wi = 1
    /\ paramsCsv = <<>>
    /\ InitPicardVars
    /\ sf = <<>>
    /\ ndp \in NdpVals
    /\ stokes = [fn_lambda |-> FALSE]
    /\ solver = [penalty |-> <<>>]
    /\ InitMpiVars
    /\ materialVariable = <<>>
    /\ plasticStrain = [pt \in Particles(md, ndp) |-> 0]
    /\ strainRate_2ndInvariantFn = <<>>
    /\ yieldingViscosityFn = <<>>
    /\ viscosityFn = <<>>
    /\ viscosity2Fn = <<>>
    /\ secondViscosityFn = <<>>
    /\ eII_sig = <<>>
    /\ shearbandswarm = <<>>
    /\ in2sigRest = <<>>
    /\ out2sigRest = <<>>
    /\ shearArea = <<>>
    /\ backgroundArea = <<>>

\* the state after the Picard loop, the rheology known at one point
InitMetrics ==
    /\ script \in Scripts
    /\ argv = <<>>
    /\ pc = "solve"
    /\ fs = {}
    /\ Model = "T"
    /\ ModNum = 0
    /\ dp = DefaultDp(script)
    /\ md \in FieldMds(script)
    /\ argi = 1
    /\ written = {}
    /\ wi = 1
    /\ paramsCsv = <<>>
    /\ InitPicardVars
    /\ sf = <<>>
    /\ ndp \in {n \in NdpVals : n.etaMin = 1}
    /\ stokes = [fn_lambda |-> FALSE]
    /\ solver = [penalty |-> <<>>]
    /\ InitMpiVars
    /\ materialVariable =
          [pt \in Particles(md, ndp) |-> MaterialOf(script, md, ndp, pt)]
    /\ plasticStrain = [pt \in Particles(md, ndp) |-> 0]
    /\ strainRate_2ndInvariantFn = <<>>
    /\ yieldingViscosityFn =
          IF script = "isotropic" THEN YieldingViscosity(8, 1) ELSE <<>>
    /\ viscosityFn =
          IF script = "isotropic"
          THEN viscosityMap(YieldingViscosity(8, 1), ndp) ELSE <<>>
    /\ viscosity2Fn = IF script = "isotropic" THEN <<>> ELSE Viscosity2(8, 1)
    /\ secondViscosityFn =
          IF script = "isotropic" THEN <<>>
          ELSE delviscosity2Map(Viscosity2(8, 1), ndp)
    /\ eII_sig = <<>>
    /\ shearbandswarm = <<>>
    /\ in2sigRest = <<>>
    /\ out2sigRest = <<>>
    /\ shearArea = <<>>
    /\ backgroundArea = <<>>

\* the material, perturbation and rheology cells
NextFields ==
    \/ MaterialStep
    \/ PlasticStrainStep
    \/ RheologyStep

\* the cells after the Picard loop
NextMetrics ==
    \/ StrainRateStep
    \/ ThresholdStep
    \/ PopulateStep
    \/ FilterStep
    \/ AreasStep

Next == NextCli \/ NextPicard \/ NextMpi \/ NextFields \/ NextMetrics

Spec == InitPicard /\ [][NextPicard]_vars
SpecCli == InitCli /\ [][NextArgs]_vars
SpecDirs == InitDirs /\ [][NextCli]_vars
SpecMpi == InitMpi /\ [][NextMpi]_vars
SpecCsv == InitCsv /\ [][NextCli]_vars
SpecFields == InitFields /\ [][NextFields]_vars
SpecMetrics == InitMetrics /\ [][NextMetrics]_vars

(***************************************************************************)
(* Properties of the Picard loop (specification Spec)                      *)
(***************************************************************************)
LoopCap == PyIntOf(md["maxIts"])
InLoopOrAfter == pc # "maxits"
AtIterationEnd == pc \in {"for", "post", "done"}
LoopExited == pc \in {"post", "done"}
BelowTolAt(i) == Below(res1Vals[i], md["tol"])

\* C1: the Picard loop makes at most int(md.maxIts) calls to solver.solve,
\* and once an iteration has recorded a velocity residual res1 strictly
\* below md.tol no further call to solver.solve is made.
C1_SolveBound ==
    InLoopOrAfter =>
        /\ solves <= LoopCap
        /\ \A i \in 1..Len(res1Vals) : BelowTolAt(i) => solves <= i

\* a run of isotropic.py that used all int(md.maxIts) solves without converging
C1_Witness ==
    /\ pc = "done"
    /\ script = "isotropic"
    /\ solves = LoopCap
    /\ ~BelowTolAt(count)

\* iteration at which a run seeing the res1 values seq stops, cap at most
StopIndex(seq, tol, cap) ==
    LET hits == {i \in 1..Len(seq) : Below(seq[i], tol)}
    IN IF hits = {} THEN cap
       ELSE CHOOSE i \in hits : \A j \in hits : i <= j

\* C2: when the loop has exited, count = int(md.maxIts) or the last recorded
\* res1 is strictly below md.tol; no earlier res1 is below md.tol; and the
\* number of iterations is a function of the res1 values alone (the first
\* index below md.tol, else the cap), whatever res2 and res3 were.
C2_ExitCondition ==
    LoopExited =>
        /\ count = LoopCap \/ (count > 0 /\ BelowTolAt(count))
        /\ \A i \in 1..(Len(res1Vals) - 1) : ~BelowTolAt(i)
        /\ count = StopIndex(res1Vals, md["tol"], LoopCap)

\* an early exit on convergence after iterations that did not converge,
\* with pressure residuals that differ between the last two iterations
C2_Witness ==
    /\ pc = "done"
    /\ count = 3
    /\ count < LoopCap
    /\ BelowTolAt(3)
    /\ res2Vals[2] # res2Vals[3]

\* C3: the pressure residual recorded by an iteration is the norm of
\* (pressureField - prevPressureField) over the norm of pressureField, so it
\* is non-zero whenever the pressure differs from the previous snapshot.
C3_PressureResidual ==
    (AtIterationEnd /\ count > 0) =>
        /\ res2Vals[count] =
              [n |-> PresDot(PresSub(pressureField, prevPressureField),
                             PresSub(pressureField, prevPressureField)),
               d |-> PresDot(pressureField, pressureField)]
        /\ pressureField # prevPressureField => res2Vals[count].n # 0

IsPrefix(a, b) == Len(a) <= Len(b) /\ SubSeq(b, 1, Len(a)) = a

Tok == argv[argi]
Processing == pc = "override"

CountChar(s, c) == Cardinality({i \in 1..Len(s) : CharAt(s, i) = c})

\* shape of a token with exactly one "=": operator, text before it, value
OpOf(tok) ==
    IF Find(tok, "=") > 1 /\ CharAt(tok, Find(tok, "=") - 1) = "*"
    THEN "*=" ELSE "="
BeforeOp(tok) == SubSeq(tok, 1, Find(tok, OpOf(tok)) - 1)
ValueOf(tok) == SubSeq(tok, Find(tok, "=") + 1, Len(tok))
DicOf(tok) == SubSeq(BeforeOp(tok), 1, Find(BeforeOp(tok), ".") - 1)
KeyOf(tok) == SubSeq(BeforeOp(tok), Find(BeforeOp(tok), ".") + 1, Len(BeforeOp(tok)))
IsNumeral(text) == ParseFloat(text).ok

\* a token with one "=" and one "." before the operator
HasShape(tok) ==
    /\ CountChar(tok, "=") = 1
    /\ CountChar(BeforeOp(tok), ".") = 1

\* not a well-formed override
Malformed(tok) ==
    \/ ~HasShape(tok)
    \/ KeyOf(tok) = ""
    \/ ValueOf(tok) = ""
    \/ OpOf(tok) = "*=" /\ ~IsNumeral(ValueOf(tok))

\* C5: a malformed token leaves dp and md as they were, raises nothing, and
\* the loop goes on to the next token.
C5_MalformedIgnored ==
    [][(Processing /\ Malformed(Tok)) =>
          /\ dp' = dp
          /\ md' = md
          /\ pc' # "crashed"
          /\ argi' = argi + 1]_vars

\* the value the text denotes: True, False, a float, or the text itself
Denoted(text) ==
    CASE text = "True" -> PyBool(TRUE)
      [] text = "False" -> PyBool(FALSE)
      [] text \notin {"True", "False"} /\ IsNumeral(text) -> ParseFloat(text).v
      [] OTHER -> PyStr(text)

\* a token <name>.<key>=<value>
IsAssign(tok, name) ==
    HasShape(tok) /\ OpOf(tok) = "=" /\ DicOf(tok) = name

\* a token <name>.<key>*=<value> with a numeric value
IsMultiply(tok, name) ==
    HasShape(tok) /\ OpOf(tok) = "*=" /\ DicOf(tok) = name /\ IsNumeral(ValueOf(tok))

Put(d, key, v) == [k \in DOMAIN d \cup {key} |-> IF k = key THEN v ELSE d[k]]

\* C6: a token dp.<key>=<value> or md.<key>=<value> maps <key>, created if
\* absent, to the value the text denotes in the named dictionary, and changes
\* no other entry of dp or md.
C6_Assign ==
    [][Processing =>
          /\ IsAssign(Tok, "dp") =>
                dp' = Put(dp, KeyOf(Tok), Denoted(ValueOf(Tok))) /\ md' = md
          /\ IsAssign(Tok, "md") =>
                md' = Put(md, KeyOf(Tok), Denoted(ValueOf(Tok))) /\ dp' = dp]_vars

\* both a created text entry and a created boolean entry
C6_Witness ==
    /\ pc = "write"
    /\ argv = <<"dp.new=abc", "md.flag=False">>
    /\ dp["new"] = PyStr("abc")
    /\ md["flag"] = PyBool(FALSE)

\* the product of two numbers (float if either is a float)
Times(a, b) ==
    IF a.t = "float" \/ b.t = "float" THEN PyFloat(a.n * b.n, a.e + b.e)
    ELSE PyInt(a.n * b.n)

\* the statement of C7 as first made: an existing entry, whatever it holds,
\* becomes a number, the old entry times float(<value>)
C7_MultiplyAny ==
    [][Processing =>
          \A name \in {"dp", "md"} :
             LET d == IF name = "dp" THEN dp ELSE md
                 dnew == IF name = "dp" THEN dp' ELSE md'
                 key == KeyOf(Tok)
             IN (IsMultiply(Tok, name) /\ key \in DOMAIN d) =>
                   /\ IsNumber(d[key])
                   /\ dnew = Put(d, key, Times(d[key], Denoted(ValueOf(Tok))))]_vars

\* C7 (amended): for a token dp.<key>*=<value> or md.<key>*=<value> with a
\* numeric value, an existing numeric entry becomes the old entry times
\* float(<value>) and nothing else changes; when the key is absent or its
\* entry is a text, no key is created and dp and md are unchanged.
C7_Multiply ==
    [][Processing =>
          \A name \in {"dp", "md"} :
             LET d == IF name = "dp" THEN dp ELSE md
                 dnew == IF name = "dp" THEN dp' ELSE md'
                 other == IF name = "dp" THEN md ELSE dp
                 othernew == IF name = "dp" THEN md' ELSE dp'
                 key == KeyOf(Tok)
             IN IsMultiply(Tok, name) =>
                   /\ othernew = other
                   /\ dnew = IF key \in DOMAIN d /\ IsNumber(d[key])
                             THEN Put(d, key, Times(d[key], Denoted(ValueOf(Tok))))
                             ELSE d]_vars

\* a numeric entry multiplied, and a multiplication of an absent key
C7_Witness ==
    /\ pc = "write"
    /\ script = "isotropic"
    /\ argv = <<"dp.fa*=3", "dp.new*=3">>
    /\ dp["fa"] = PyFloat(90, 0)
    /\ "new" \notin DOMAIN dp

\* selector arguments: the positions of the arguments without "="
IntArgs(args) == {i \in 1..Len(args) : ~Contains(args[i], "=") /\ ParseInt(args[i]).ok}
NameArgs(args) == {i \in 1..Len(args) : ~Contains(args[i], "=") /\ ~ParseInt(args[i]).ok}
Last(S) == CHOOSE i \in S : \A j \in S : j <= i
LastModNum(args) == IF IntArgs(args) = {} THEN 0 ELSE ParseInt(args[Last(IntArgs(args))]).n
LastModel(args) == IF NameArgs(args) = {} THEN "T" ELSE args[Last(NameArgs(args))]
Selected == pc # "select"

\* the statement of C8 as first made: for every argument list the last
\* integer argument without "=" is ModNum and the last other argument
\* without "=" is Model
C8_SelectorAny ==
    Selected => Model = LastModel(argv) /\ ModNum = LastModNum(argv)

\* C8 (amended): for every argument list whose first argument is not '-f',
\* the last integer argument without "=" is ModNum (0 if none) and the last
\* other argument without "=" is Model ('T' if none), arguments with "="
\* changing neither; when the first argument is '-f' no argument is
\* interpreted and Model = 'T', ModNum = 0.
C8_Selector ==
    Selected =>
        IF Len(argv) > 0 /\ argv[1] = "-f"
        THEN Model = "T" /\ ModNum = 0
        ELSE Model = LastModel(argv) /\ ModNum = LastModNum(argv)

\* two integer selectors: the last one wins and Model keeps its default
C8_Witness ==
    /\ pc = "write"
    /\ argv = <<"3", "07">>
    /\ ModNum = 7
    /\ Model = "T"

\* the text before the "." of the token (the whole token when it has none)
NamedDict(tok) ==
    IF Find(tok, ".") = 0 THEN tok ELSE SubSeq(tok, 1, Find(tok, ".") - 1)

\* C9: a token changes dp only if the name before its "." is exactly dp, md
\* only if it is exactly md, and never both.
C9_ExactName ==
    [][Processing =>
          /\ NamedDict(Tok) # "dp" => dp' = dp
          /\ NamedDict(Tok) # "md" => md' = md
          /\ dp' = dp \/ md' = md]_vars

(***************************************************************************)
(* Properties of the output tree (specification SpecDirs)                  *)
(***************************************************************************)
TreeDirs ==
    {NormPath(outputPath(Model, ModNum)), NormPath(imagePath(Model, ModNum)),
     NormPath(filePath(Model, ModNum)), NormPath(checkpointPath(Model, ModNum)),
     NormPath(dbPath(Model, ModNum))}
DirsSetUp == pc \notin {"select", "dirs"}

\* C10: once directory set-up has run, results/<Model>/<ModNum>/ and its
\* subdirectories images, files, checkpoint and gldbs exist whatever part
\* of the tree existed before; existing directories stay and nothing is
\* raised; every file written lies under results/<Model>/<ModNum>/ in a
\* directory that exists.
C10_OutputTree ==
    /\ [](DirsSetUp =>
            /\ TreeDirs \subseteq fs
            /\ pc # "crashed"
            /\ \A f \in written :
                  /\ StartsWith(f, outputPath(Model, ModNum))
                  /\ ParentDir(f) \in TreeDirs)
    /\ [][fs \subseteq fs']_vars

\* a complete run of isotropic.py for model S, number 3
C10_Witness ==
    /\ pc = "done"
    /\ script = "isotropic"
    /\ Model = "S"
    /\ ModNum = 3
    /\ "results/S/3/files/swarm.h5" \in written
    /\ "results/S/3/params.csv" \in written
    /\ "results/S/3/gldbs" \in fs

(***************************************************************************)
(* Properties of a parallel run (specification SpecMpi)                    *)
(***************************************************************************)
PastLabel(r, l) == Pos(rpc[r]) > Pos(l)

\* C11: only rank 0 creates the output directories, and no process is past
\* the directory set-up barrier before rank 0 has finished creating all of
\* the directories.
C11_DirsBeforeBarrier ==
    /\ [](\A r \in Ranks :
            PastLabel(r, "barrier1") =>
                PastLabel(0, "dirs") /\ TreeDirs \subseteq fs)
    /\ [][fs' # fs => rpc[0] = "dirs" /\ rpc'[0] # "dirs"]_vars

\* another rank runs the cells after the barrier; rank 0, which created the
\* whole tree, has not left the barrier yet
C11_Witness ==
    /\ rpc[1] = "params"
    /\ rpc[0] = "barrier1"
    /\ TreeDirs \subseteq fs
    /\ "results/T/0/gldbs" \in fs

\* C12: when rank 0 opened swarm.h5 every rank had returned from
\* shearbandswarm.save, so no rank was still writing its part; and no rank is
\* past the barrier after the read before rank 0 has finished reading.
C12_ReadAfterSave ==
    /\ PastLabel(0, "read") => readParts = Ranks
    /\ \A r \in Ranks : PastLabel(r, "barrier3") => PastLabel(0, "read")

\* C13: after the broadcast every rank holds the slope and the intercept of
\* rank 0's fit in dydx and const, and swarmCustom is built from these on
\* every rank, never from the placeholders 1. and 0.
C13_Broadcast ==
    \A r \in Ranks :
        /\ PastLabel(r, "bcast") =>
              dydx[r] = <<pfit[1]>> /\ const[r] = <<pfit[0]>>
        /\ swarmCustom[r] # <<>> =>
              /\ swarmCustom[r] = <<pfit[1], pfit[0]>>
              /\ swarmCustom[r] # <<1, 0>>

\* every rank has built swarmCustom on the fitted line 2*x + 3
C13_Witness ==
    /\ \A r \in Ranks : rpc[r] = "done" /\ swarmCustom[r] = <<2, 3>>
    /\ pfit[1] = 2
    /\ pfit[0] = 3

(***************************************************************************)
(* Properties of the scaling and the solver set-up (specification SpecCli) *)
(***************************************************************************)
NdpReady == pc \in {"solver", "write"}
LengthScale == IF script = "isotropic" THEN sf["LS"] ELSE dp["LS"]
RefViscosity == IF script = "isotropic" THEN sf["eta0"] ELSE dp["eta0"]
VelKey == IF script = "isotropic" THEN "U0" ELSE "U"
Lengths == {"depth", "asthenosphere", "notchWidth"} \cap DOMAIN ndp
Viscosities == {"eta1", "eta2", "etaMin", "lam"} \cap DOMAIN ndp
Scales == {sf[k] : k \in DOMAIN sf} \cup {LengthScale, RefViscosity}

\* the entries whose scale factor the statement names
ListedScaled ==
    /\ \A k \in Lengths : ndp[k] = Quot(dp[k], LengthScale)
    /\ \A k \in Viscosities : ndp[k] = Quot(dp[k], RefViscosity)
    /\ ndp[VelKey] = Quot(dp["U0"], sf["vel"])
    /\ ndp["rho"] = Quot(dp["rho"], sf["rho"])
    /\ ndp["g"] = Quot(dp["g"], sf["g"])

\* the statement of C14 as first made: every entry of ndp is the dp entry
\* divided by its scale factor and nothing else
C14_AllScaled ==
    NdpReady =>
        /\ ListedScaled
        /\ ndp["cohesion"] = Quot(dp["cohesion"], sf["stress"])
        /\ \A k \in {"fa", "a"} : \E s \in Scales : ndp[k] = Quot(dp[k], s)

\* C14 (amended): after parameter set-up the ndp lengths are the dp lengths
\* over the length scale, the viscosities (and lam) over the reference
\* viscosity, the velocity over sf.vel, the density over sf.rho, gravity
\* over sf.g; cohesion is dp.cohesion over sf.stress in ti_model.py and that
\* quotient times cos(radians(dp.fa)) in isotropic.py; ndp.fa is
\* sin(radians(dp.fa)) in isotropic.py and tan(radians(dp.fa)) in
\* ti_model.py; ndp.a is dp.a; ndp has no other entry.
C14_Scaled ==
    NdpReady =>
        /\ ListedScaled
        /\ DOMAIN ndp = Lengths \cup Viscosities
                           \cup {VelKey, "rho", "g", "cohesion", "fa", "a"}
        /\ ndp["a"] = dp["a"]
        /\ IF script = "isotropic"
           THEN /\ ndp["cohesion"] = Prod(Quot(dp["cohesion"], sf["stress"]),
                                          Fn("cos", Radians(dp["fa"])))
                /\ ndp["fa"] = Fn("sin", Radians(dp["fa"]))
           ELSE /\ ndp["cohesion"] = Quot(dp["cohesion"], sf["stress"])
                /\ ndp["fa"] = Fn("tan", Radians(dp["fa"]))

\* isotropic.py run with the friction angle overridden to 10 degrees
C14_Witness ==
    /\ pc = "write"
    /\ script = "isotropic"
    /\ argv = <<"dp.fa=10">>
    /\ ndp["fa"] = Fn("sin", Radians(PyFloat(10, 0)))
    /\ ndp["rho"] = Quot(PyFloat(27, 2), sf["rho"])

(***************************************************************************)
(* Further properties of the Picard loop (specification Spec)              *)
(***************************************************************************)
\* C15: the snapshots taken at the start of an iteration are the fields as
\* the previous iteration left them (as they were before the loop, for the
\* first); solver.solve and the detrending leave the snapshots unchanged;
\* and the differences in the residuals an iteration records are the
\* current field minus its snapshot.
C15_Snapshots ==
    /\ [][(pc = "for" /\ pc' = "solve") =>
             /\ prevVelocityField' = velocityField
             /\ prevPressureField' = pressureField]_vars
    /\ [][pc = "norms" =>
             /\ velocityField' = velocityField
             /\ pressureField' = pressureField]_vars
    /\ [][(pc = "solve" \/ pc = "detrend") =>
             /\ prevVelocityField' = prevVelocityField
             /\ prevPressureField' = prevPressureField]_vars
    /\ []((AtIterationEnd /\ count > 0) =>
             LET dv == velocityField - prevVelocityField
                 dpres == PresSub(pressureField, prevPressureField)
             IN /\ res1Vals[count].n = VelDot(dv, dv)
                /\ res2Vals[count].n = PresDot(dpres, dpres)
                /\ res3Vals[count].n = VelDot(dv, dv) + PresDot(dpres, dpres))

Detrended(f) == SurfaceIntegral(f) = 0

\* C16: in every iteration the detrending runs exactly once, after
\* solver.solve and before the norms; so the norms of every iteration see a
\* detrended pressure and, from the second iteration on, a detrended
\* previous pressure, and the pressure left after the loop is detrended.
C16_DetrendOnce ==
    InLoopOrAfter =>
        /\ pc = "detrend" => detrends = solves - 1
        /\ pc # "detrend" => detrends = solves
        /\ AtIterationEnd => detrends = count
        /\ pc = "norms" => Detrended(pressureField)
        /\ (pc = "norms" /\ count >= 1) => Detrended(prevPressureField)
        /\ (LoopExited /\ count > 0) => Detrended(pressureField)

\* the norms of a second iteration, after two solves and two detrendings,
\* over a detrended pressure and a detrended snapshot
C16_Witness ==
    /\ pc = "norms"
    /\ count = 1
    /\ detrends = 2
    /\ pressureField = <<0, 0>>
    /\ prevPressureField = <<0, 0>>
    /\ velocityField # prevVelocityField

\* C17: with an override md.maxIts=<N> on the command line the loop makes
\* at most int(N) calls to solver.solve.
C17_OverrideCap ==
    \A i \in 1..Len(argv) :
        (IsAssign(argv[i], "md") /\ KeyOf(argv[i]) = "maxIts"
            /\ IsNumeral(ValueOf(argv[i])))
        => solves <= PyIntOf(Denoted(ValueOf(argv[i])))

(***************************************************************************)
(* Further properties of the command line (specification SpecCli)          *)
(***************************************************************************)
OverridesDone == pc \notin {"select", "dirs", "override"}

\* a well-formed token naming exactly dp or md
WellFormed(tok) == ~Malformed(tok) /\ DicOf(tok) \in {"dp", "md"}

\* what one token does to the dictionary called name when tokens act in
\* order on the state the previous token left
Effect(tok, name, d) ==
    IF Malformed(tok) \/ DicOf(tok) # name THEN d
    ELSE IF OpOf(tok) = "="
    THEN Put(d, KeyOf(tok), Denoted(ValueOf(tok)))
    ELSE IF KeyOf(tok) \in DOMAIN d /\ IsNumber(d[KeyOf(tok)])
    THEN Put(d, KeyOf(tok), Times(d[KeyOf(tok)], Denoted(ValueOf(tok))))
    ELSE d

RECURSIVE InOrder(_, _, _)
InOrder(args, name, d) ==
    IF args = <<>> THEN d
    ELSE InOrder(Tail(args), name, Effect(Head(args), name, d))

\* C18: the override tokens act in command-line order, each on the state
\* the previous one left: 'dp.fa=10 dp.fa*=3' leaves 30 and
\* 'dp.fa*=3 dp.fa=10' leaves 10, and a malformed token between two
\* well-formed ones changes nothing of this.
C18_InOrder ==
    (/\ OverridesDone
     /\ Len(argv) >= 2
     /\ WellFormed(argv[1])
     /\ WellFormed(argv[Len(argv)])
     /\ \A i \in 1..Len(argv) : WellFormed(argv[i]) \/ Malformed(argv[i]))
    => /\ dp = InOrder(argv, "dp", DefaultDp(script))
       /\ md = InOrder(argv, "md", DefaultMd(script))
       /\ (\A i \in 2..(Len(argv) - 1) : Malformed(argv[i])) =>
             /\ (argv[1] = "dp.fa=10" /\ argv[Len(argv)] = "dp.fa*=3")
                   => dp["fa"] = PyFloat(30, 0)
             /\ (argv[1] = "dp.fa*=3" /\ argv[Len(argv)] = "dp.fa=10")
                   => dp["fa"] = PyFloat(10, 0)

DefaultDepth == DefaultDp("isotropic")["depth"]
Names(key) == \E i \in 1..Len(argv) : Contains(argv[i], key)

\* C19: in isotropic.py ndp.depth follows an override of dp.depth, while
\* dp.asthenosphere, dp.notchWidth and their ndp entries keep the values
\* derived from the default depth (depth/4, depth/16) unless a token names
\* them.
C19_DerivedFromDefault ==
    (script = "isotropic" /\ NdpReady) =>
        /\ ndp["depth"] = Quot(dp["depth"], sf["LS"])
        /\ argv = <<"dp.depth=15000">> => dp["depth"] = PyFloat(15, 3)
        /\ ~Names("asthenosphere") =>
              /\ dp["asthenosphere"] = Quarter(DefaultDepth)
              /\ ndp["asthenosphere"] = Quot(Quarter(DefaultDepth), sf["LS"])
        /\ ~Names("notchWidth") =>
              /\ dp["notchWidth"] = Sixteenth(DefaultDepth)
              /\ ndp["notchWidth"] = Quot(Sixteenth(DefaultDepth), sf["LS"])

\* the depth halved and the notch width set by its own token
C19_Witness ==
    /\ pc = "write"
    /\ script = "isotropic"
    /\ argv = <<"dp.depth=15000", "dp.notchWidth=100">>
    /\ ndp["depth"] = Quot(PyFloat(15, 3), PyFloat(3, 4))
    /\ ndp["asthenosphere"] = Quot(PyFloat(75, 2), PyFloat(3, 4))
    /\ ndp["notchWidth"] = Quot(PyFloat(1, 2), PyFloat(3, 4))

\* C20: in isotropic.py stokes.fn_lambda is set exactly when md.comp is
\* truthy, set_penalty is called (once, with md.pen) exactly when md.pen is
\* truthy and md.comp is falsy, and so never both.
C20_LambdaOrPenalty ==
    (script = "isotropic" /\ pc = "write") =>
        /\ stokes.fn_lambda <=> Truthy(md["comp"])
        /\ solver.penalty # <<>> <=> (Truthy(md["pen"]) /\ ~Truthy(md["comp"]))
        /\ solver.penalty # <<>> => solver.penalty = <<md["pen"]>>
        /\ ~(stokes.fn_lambda /\ solver.penalty # <<>>)

\* compressible run with the default penalty value: fn_lambda only
C20_Witness ==
    /\ pc = "write"
    /\ script = "isotropic"
    /\ argv = <<"md.comp=True">>
    /\ Truthy(md["pen"])
    /\ stokes.fn_lambda
    /\ solver.penalty = <<>>

(***************************************************************************)
(* params.csv (specification SpecCsv)                                      *)
(***************************************************************************)
ParamsWritten == script = "isotropic" /\ paramsCsv # <<>>

\* C27: in isotropic.py, for every command line, dp and ndp have the same
\* set of keys when params.csv is written, so its dp row and its ndp row,
\* both in sorted-key order, have the same length and column i of the two
\* rows refers to the same parameter.
C27_SameKeys ==
    ParamsWritten =>
        /\ DOMAIN dp = DOMAIN ndp
        /\ Len(paramsCsv[1]) = Len(paramsCsv[2])
        /\ \A i \in 1..Len(paramsCsv[1]) :
               Sorted(DOMAIN dp)[i] = Sorted(DOMAIN ndp)[i]

\* the same for the command lines that create no key of dp
CreatesNoKey == DOMAIN dp = DOMAIN DefaultDp(script)
C27_DefaultKeys ==
    (ParamsWritten /\ CreatesNoKey) =>
        /\ DOMAIN dp = DOMAIN ndp
        /\ Len(paramsCsv[1]) = Len(paramsCsv[2])
        /\ \A i \in 1..Len(paramsCsv[1]) :
               Sorted(DOMAIN dp)[i] = Sorted(DOMAIN ndp)[i]

\* a run with an override that went through to the last file write
C27_Witness ==
    /\ ParamsWritten
    /\ CreatesNoKey
    /\ argv = <<"dp.fa=10">>
    /\ pc = "done"

(***************************************************************************)
(* Materials and rheology (specification SpecFields)                       *)
(***************************************************************************)
MaterialsSet == materialVariable # <<>>
IsAir(pt) == pt[2] > Top
InWeakZone(pt) ==
    \/ pt[2] < ndp.asthenosphere
    \/ BelowGaus(ndp, ndp.notchWidth, pt)
    \/ BelowGaus(ndp, 0 - ndp.notchWidth, pt)
    \/ notchCond(ndp, pt)
FirstMatch(pt) == IF IsAir(pt) THEN 0 ELSE IF InWeakZone(pt) THEN 2 ELSE 1
Perturbed == script = "isotropic" /\ md["perturb"] # PyInt(0)
                /\ md["perturb"] # PyFloat(0, 0) /\ md["perturb"] # PyBool(FALSE)

\* C21: every particle gets exactly one material index from {0, 1, 2}.  In
\* ti_model.py, and in isotropic.py with md.perturb == 0, by first match:
\* air (0) above y = 1.0; otherwise 2 below the asthenosphere level, below
\* either Gaussian bump or inside the notch; otherwise 1.  In isotropic.py
\* with md.perturb != 0 the index is 2 exactly below ndp.asthenosphere and 1
\* elsewhere, so no particle is air, and the plastic strain of every particle
\* below ndp.asthenosphere is 0.
C21_Materials ==
    MaterialsSet =>
        \A pt \in Particles(md, ndp) :
            /\ materialVariable[pt] \in {0, 1, 2}
            /\ ~Perturbed => materialVariable[pt] = FirstMatch(pt)
            /\ Perturbed =>
                  /\ materialVariable[pt] = 2 <=> pt[2] < ndp.asthenosphere
                  /\ materialVariable[pt] = 1 <=> pt[2] >= ndp.asthenosphere
                  /\ pt[2] < ndp.asthenosphere => plasticStrain[pt] = 0

\* isotropic.py with md.perturb = 0 and sticky air, past the material cells:
\* air, a weak particle under a bump outside the notch, and a strong one
C21_Witness ==
    /\ script = "isotropic"
    /\ ~Perturbed
    /\ pc = "rheology"
    /\ \E pt \in Particles(md, ndp) : materialVariable[pt] = 0
    /\ \E pt \in Particles(md, ndp) :
          /\ materialVariable[pt] = 2
          /\ pt[2] >= ndp.asthenosphere
          /\ ~notchCond(ndp, pt)
    /\ \E pt \in Particles(md, ndp) : materialVariable[pt] = 1

ViscositySet == script = "isotropic" /\ viscosityFn # <<>>
FracLeq(p, q) == ~FracLess(q, p)
Harmonic ==
    Frac(yieldingViscosityFn.n * ndp.eta1,
         yieldingViscosityFn.d * ndp.eta1 + yieldingViscosityFn.n)
ViscosityByMaterial ==
    /\ viscosityFn[0] = Whole(ndp.etaMin)
    /\ viscosityFn[2] = Whole(ndp.eta2)
    /\ viscosityFn[1] = FracMax(Whole(ndp.etaMin), Harmonic)
    /\ FracLeq(Whole(ndp.etaMin), viscosityFn[1])
YieldingPositive == yieldingViscosityFn.n > 0

\* C25: in isotropic.py the viscosity is ndp.etaMin for material 0, ndp.eta2
\* for material 2, and for material 1 the larger of ndp.etaMin and
\* 1/(1/yieldingViscosity + 1/ndp.eta1); for material 1 it is never below
\* ndp.etaMin, whatever the yield stress (negative included) and the strain
\* rate, and never above ndp.eta1 whenever the yielding viscosity is
\* positive.
C25_Viscosity ==
    ViscositySet =>
        /\ ViscosityByMaterial
        /\ YieldingPositive => FracLeq(viscosityFn[1], Whole(ndp.eta1))

\* C25 with the upper bound limited to parameters with
\* ndp.etaMin <= ndp.eta1; otherwise the floor ndp.etaMin is the viscosity
\* of material 1 whenever the yielding viscosity is positive.
C25_ViscosityFloor ==
    ViscositySet =>
        /\ ViscosityByMaterial
        /\ (YieldingPositive /\ ndp.etaMin <= ndp.eta1) =>
              FracLeq(viscosityFn[1], Whole(ndp.eta1))
        /\ (YieldingPositive /\ ndp.etaMin > ndp.eta1) =>
              viscosityFn[1] = Whole(ndp.etaMin)

\* a yielding particle whose viscosity is the harmonic combination, between
\* the floor and ndp.eta1
C25_Witness ==
    /\ ViscositySet
    /\ YieldingPositive
    /\ ndp.etaMin <= ndp.eta1
    /\ FracLess(Whole(ndp.etaMin), viscosityFn[1])
    /\ FracLess(viscosityFn[1], Whole(ndp.eta1))

BackgroundOf(m) == IF m = 0 THEN Whole(visc0)
                   ELSE IF m = 1 THEN Whole(ndp.eta1) ELSE Whole(ndp.eta2)
ReductionSet == script = "ti_model" /\ secondViscosityFn # <<>>
Effective == FracSub(BackgroundOf(1), secondViscosityFn[1])

\* C26: in ti_model.py the second-viscosity reduction is 0 for materials 0
\* and 2 and min(background - ndp.etaMin, max(0, background - viscosity2))
\* for material 1; whenever the background viscosity is at least ndp.etaMin
\* the reduction is between 0 and background - ndp.etaMin, and background
\* minus reduction between ndp.etaMin and the background viscosity, for
\* every viscosity2, negative ones included.
C26_Reduction ==
    ReductionSet =>
        /\ secondViscosityFn[0] = Whole(0)
        /\ secondViscosityFn[2] = Whole(0)
        /\ secondViscosityFn[1] =
              FracMin(FracSub(BackgroundOf(1), Whole(ndp.etaMin)),
                      FracMax(Whole(0), FracSub(BackgroundOf(1), viscosity2Fn)))
        /\ ndp.eta1 >= ndp.etaMin =>
              /\ FracLeq(Whole(0), secondViscosityFn[1])
              /\ FracLeq(secondViscosityFn[1],
                         FracSub(BackgroundOf(1), Whole(ndp.etaMin)))
              /\ FracLeq(Whole(ndp.etaMin), Effective)
              /\ FracLeq(Effective, BackgroundOf(1))

\* a negative viscosity2 with the background above the floor: the whole of
\* background - ndp.etaMin is taken off
C26_Witness ==
    /\ ReductionSet
    /\ viscosity2Fn.n < 0
    /\ ndp.eta1 > ndp.etaMin
    /\ Effective = Whole(ndp.etaMin)

(***************************************************************************)
(* Shear-band metrics (specification SpecMetrics)                          *)
(***************************************************************************)
Filtered == pc \in {"areas", "done"}
InWindow(pt) ==
    /\ pt[2] >= ndp.asthenosphere + ndp.notchWidth
    /\ pt[2] <= Top - ndp.notchWidth
    /\ pt[1] <= 0 - 2 * ndp.notchWidth
    /\ script = "isotropic" => 3 * pt[1] >= 2 * minX(script, md)
AtLeastThreshold(pt) ==
    FracLeq(eII_sig, Whole(strainRate_2ndInvariantFn[pt[1]]))

\* C22: after the three filtering passes every particle left in
\* shearbandswarm has a strain-rate invariant not below the threshold, y
\* from ndp.asthenosphere + ndp.notchWidth to 1 - ndp.notchWidth inclusive
\* and x not greater than -2*ndp.notchWidth (in isotropic.py also x not less
\* than minX/1.5); and every initial particle with all these properties is
\* still in the swarm.
C22_Filtered ==
    Filtered =>
        /\ \A pt \in shearbandswarm : InWindow(pt) /\ AtLeastThreshold(pt)
        /\ \A pt \in Particles(md, ndp) :
              (InWindow(pt) /\ AtLeastThreshold(pt)) => pt \in shearbandswarm

\* a filtered swarm that kept particles and lost some to the strain-rate
\* pass and some to the position passes
C22_Witness ==
    /\ Filtered
    /\ shearbandswarm # {}
    /\ \E pt \in Particles(md, ndp) : InWindow(pt) /\ ~AtLeastThreshold(pt)
    /\ \E pt \in Particles(md, ndp) : ~InWindow(pt) /\ AtLeastThreshold(pt)

ThresholdSet == eII_sig # <<>>
Mean == eii_mean(strainRate_2ndInvariantFn, md, ndp)
Std == eii_std(strainRate_2ndInvariantFn, Mean, md, ndp)

\* C23: in both scripts the shear-band threshold is the mean of the
\* strain-rate invariant plus 2 times its standard deviation
\* (eii_mean + 2*eii_std).
C23_TwoSigma ==
    ThresholdSet => eII_sig = FracAdd(Mean, FracMul(Whole(2), Std))

AreasSet == pc = "done"
AboveLevel(pt) == pt[2] > ndp.asthenosphere + ndp.notchWidth
OnThreshold(pt) == eII_sig = Whole(strainRate_2ndInvariantFn[pt[1]])
RegionArea ==
    Integral([pt \in Particles(md, ndp) |-> IF AboveLevel(pt) THEN 1 ELSE 0],
             md, ndp)

\* C24: the two indicators are never both 1 at a point; both are 0 where
\* y <= ndp.asthenosphere + ndp.notchWidth and where the strain-rate
\* invariant equals the threshold exactly; everywhere else exactly one of
\* them is 1; hence shearArea + backgroundArea is at most the area of the
\* region y > ndp.asthenosphere + ndp.notchWidth.
C24_Indicators ==
    AreasSet =>
        /\ \A pt \in Particles(md, ndp) :
              /\ ~(in2sigRest[pt] = 1 /\ out2sigRest[pt] = 1)
              /\ (~AboveLevel(pt) \/ OnThreshold(pt)) =>
                    (in2sigRest[pt] = 0 /\ out2sigRest[pt] = 0)
              /\ (AboveLevel(pt) /\ ~OnThreshold(pt)) =>
                    in2sigRest[pt] + out2sigRest[pt] = 1
        /\ FracLeq(FracAdd(shearArea, backgroundArea), RegionArea)

\* points inside the band, points outside it and points at or below the
\* level, in one run
C24_Witness ==
    /\ AreasSet
    /\ \E pt \in Particles(md, ndp) : in2sigRest[pt] = 1
    /\ \E pt \in Particles(md, ndp) : out2sigRest[pt] = 1
    /\ \E pt \in Particles(md, ndp) :
          ~AboveLevel(pt) /\ in2sigRest[pt] = 0 /\ out2sigRest[pt] = 0
    /\ FracLess(Whole(0), shearArea)

====
